---- MODULE Spec2Model ----
(***************************************************************************)
(* A model of devito's access/dependence analysis (ir/support/basic.py)    *)
(* and halo-scheme derivation (mpi/halo_scheme.py).                        *)
(*                                                                         *)
(* Python values are modelled as follows.                                  *)
(*  - An index entry (an int or a SymPy expression, affine with integer    *)
(*    coefficients in the Dimension symbols) is a record [k, c]: the       *)
(*    constant term and the coefficient of every symbol.  SymPy keeps such *)
(*    sums in canonical form, so structural equality is record equality.   *)
(*  - The outcome of a call is a record [exc, b, v]: the exception raised  *)
(*    ("none" when the call returns), a boolean result, a sequence result. *)
(***************************************************************************)
EXTENDS Integers, Sequences, FiniteSets, TLC

VARIABLES
    va, vb, vop, vres,          \* Vector operations: operands, operation, outcome
    exprs, reads, writes,       \* Scope: the equations and the two access dicts
    cache, gen, first,          \* Scope: cached_property slots, build number, groups of the first build
    hexprs, hgrid, hfun,        \* HaloScheme: the equations, the grid and the data object's sizes
    hdspace, hdir, hout,        \* HaloScheme: the data space, the directions, the scheme built
    hstep, hsub,                \* HaloScheme: whether t is a stepping dimension, its sub-iterators
    hmask,                      \* HaloScheme: the cached_property slot of mask
    objs, groups, kinds,        \* Clusters: the objects by identity, the ClusterGroups, how each was made
    cres, ncalls,               \* Clusters: the last call and its outcome, the number of calls made
    aargs, abufs, ain, aout,    \* autotune: the caller's arguments and buffers, the inputs, the outcome
    sheap, symcache,            \* symbol cache: the cached objects by identity, _SymbolCache
    smeas, sop                  \* symbol cache: the last two sizes measured, the last operation

vars == <<va, vb, vop, vres, exprs, reads, writes, cache, gen, first,
          hexprs, hgrid, hfun, hdspace, hdir, hout, hstep, hsub, hmask,
          objs, groups, kinds, cres, ncalls, aargs, abufs, ain, aout,
          sheap, symcache, smeas, sop>>
vecVars == <<va, vb, vop, vres>>
scopeVars == <<exprs, reads, writes, cache, gen, first>>
haloVars == <<hexprs, hgrid, hfun, hdspace, hdir, hout, hstep, hsub, hmask>>
clusterVars == <<objs, groups, kinds, cres, ncalls>>
tuneVars == <<aargs, abufs, ain, aout>>
symVars == <<sheap, symcache, smeas, sop>>

---------------------------------------------------------------------------
(* Bounds of the model *)

MaxRank == 2
MaxOff == 1
MaxEqs == 2
MaxHalo == 1
MaxMembers == 2
MaxCalls == 2
MaxObjs == 3

---------------------------------------------------------------------------
(* Index entries *)

\* The symbols index expressions are built from: the Dimensions t, x, s, y and
\* p, which stands for an indirection (an entry of another array) used as an index
Syms == {"t", "x", "s", "y", "p"}

Num(n) == [k |-> n, c |-> [s \in Syms |-> 0]]

Sym(s, n) == [k |-> n, c |-> [q \in Syms |-> IF q = s THEN 1 ELSE 0]]

\* is_integer(i), or a SymPy expression without free symbols
IsInt(e) == \A s \in Syms : e.c[s] = 0

\* i + j and i - j on ints / SymPy expressions
EAdd(i, j) == [k |-> i.k + j.k, c |-> [s \in Syms |-> i.c[s] + j.c[s]]]

ESub(i, j) == [k |-> i.k - j.k, c |-> [s \in Syms |-> i.c[s] - j.c[s]]]

---------------------------------------------------------------------------
(* Call outcomes *)

Raise(e) == [exc |-> e, b |-> FALSE, v |-> <<>>]

RetB(r) == [exc |-> "none", b |-> r, v |-> <<>>]

RetV(s) == [exc |-> "none", b |-> FALSE, v |-> s]

NoCall == [exc |-> "none", b |-> FALSE, v |-> <<>>]

---------------------------------------------------------------------------
(* class Vector(tuple) *)

Vector(items) == [kind |-> "Vector", items |-> items]

Scalar(e) == [kind |-> "scalar", items |-> <<e>>]

\* The promotion made by the _asvector wrapper: a non-iterable operand is
\* repeated len(self) times.
Promote(self, other) ==
    IF other.kind = "scalar"
    THEN Vector([i \in 1..Len(self.items) |-> other.items[1]])
    ELSE other

\* (mutant) the wrapper does not test the rank
RankMismatch_off(self, other) == FALSE

\* The rank test of the _asvector wrapper
RankMismatch(self, other) == Len(self.items) # Len(Promote(self, other).items)

\* Vector.__add__ / __sub__ bodies: zip() stops at the shorter operand
ZipLen(a, b) == IF Len(a) <= Len(b) THEN Len(a) ELSE Len(b)

SeqAdd(a, b) == [i \in 1..ZipLen(a, b) |-> EAdd(a[i], b[i])]

SeqSub(a, b) == [i \in 1..ZipLen(a, b) |-> ESub(a[i], b[i])]

Vector_add(self, other) ==
    IF RankMismatch(self, other) THEN Raise("TypeError")
    ELSE RetV(SeqAdd(self.items, Promote(self, other).items))

Vector_sub(self, other) ==
    IF RankMismatch(self, other) THEN Raise("TypeError")
    ELSE RetV(SeqSub(self.items, Promote(self, other).items))

\* Vector.distance: self - other
Vector_distance(self, other) == Vector_sub(self, other)

\* Vector.order: self.distance(other)
Vector_order(self, other) == Vector_distance(self, other)

\* (mutant) only the first component is looked at
ListLtZero_first(d) == Len(d) > 0 /\ d[1].k < 0

\* list.__lt__ of Python: diff < [0]*rank for a list of ints
RECURSIVE ListLtZero(_)
ListLtZero(d) ==
    IF Len(d) = 0 THEN FALSE
    ELSE IF d[1].k < 0 THEN TRUE
    ELSE IF d[1].k > 0 THEN FALSE
    ELSE ListLtZero(Tail(d))

\* (mutant) the components are converted lazily, up to the deciding one
RECURSIVE LtOfOrder_lazy(_)
LtOfOrder_lazy(ord) ==
    IF Len(ord) = 0 THEN RetB(FALSE)
    ELSE IF ~IsInt(ord[1]) THEN Raise("TypeError")
    ELSE IF ord[1].k < 0 THEN RetB(TRUE)
    ELSE IF ord[1].k > 0 THEN RetB(FALSE)
    ELSE LtOfOrder_lazy(Tail(ord))

\* [int(i) for i in order] < [0]*rank; int() raises TypeError on free symbols
LtOfOrder(ord) ==
    IF \E i \in 1..Len(ord) : ~IsInt(ord[i]) THEN Raise("TypeError")
    ELSE RetB(ListLtZero(ord))

Vector_eq(self, other) ==
    IF RankMismatch(self, other) THEN Raise("TypeError")
    ELSE RetB(self.items = Promote(self, other).items)

Vector_ne(self, other) ==
    IF RankMismatch(self, other) THEN Raise("TypeError")
    ELSE RetB(self.items # Promote(self, other).items)

Vector_lt(self, other) ==
    IF RankMismatch(self, other) THEN Raise("TypeError")
    ELSE LET o == Vector_order(self, Promote(self, other))
         IN  IF o.exc # "none" THEN o ELSE LtOfOrder(o.v)

\* other.__lt__(self), after the wrapper
Vector_gt(self, other) ==
    IF RankMismatch(self, other) THEN Raise("TypeError")
    ELSE Vector_lt(Promote(self, other), self)

\* self.__eq__(other) or self.__gt__(other)
Vector_ge(self, other) ==
    IF RankMismatch(self, other) THEN Raise("TypeError")
    ELSE LET o == Promote(self, other)
             e == Vector_eq(self, o)
         IN  IF e.exc # "none" \/ e.b THEN e ELSE Vector_gt(self, o)

\* self.__eq__(other) or self.__lt__(other)
Vector_le(self, other) ==
    IF RankMismatch(self, other) THEN Raise("TypeError")
    ELSE LET o == Promote(self, other)
             e == Vector_eq(self, o)
         IN  IF e.exc # "none" \/ e.b THEN e ELSE Vector_lt(self, o)

---------------------------------------------------------------------------
(* Dimensions and data objects of the modelled programs *)

Functions == {"u", "v"}

\* indexed.base.function.indices
Findices(f) == IF f = "u" THEN <<"t", "x">> ELSE <<"s", "y">>

\* Dimension.reverse
Reverse(d) == d = "s"

Indexed(f, indices) == [function |-> f, indices |-> indices]

\* The array accesses the equations are built from
Indexeds ==
    { Indexed("u", <<Sym("t", 0), Sym("x", 0)>>),
      Indexed("u", <<Sym("t", 1), Sym("x", 0)>>),
      Indexed("u", <<Sym("t", 0), Sym("x", 1)>>),
      Indexed("u", <<Sym("t", 0), Num(0)>>),
      Indexed("u", <<Sym("t", 0), Sym("p", 0)>>),
      Indexed("u", <<Sym("t", 0), Sym("p", 1)>>),
      Indexed("v", <<Sym("s", 0), Sym("y", 0)>>),
      Indexed("v", <<Sym("s", 1), Sym("y", 0)>>) }

---------------------------------------------------------------------------
(* class IterationInstance / Access / TimedAccess *)

\* TimedAccess.__new__ (through Access.__new__ and IterationInstance.__new__)
TimedAccess(indexed, mode, timestamp) ==
    [kind      |-> "TimedAccess",
     items     |-> indexed.indices,
     findices  |-> Findices(indexed.function),
     function  |-> indexed.function,
     mode      |-> mode,
     timestamp |-> timestamp,
     direction |-> [i \in 1..Len(Findices(indexed.function)) |->
                        IF Reverse(Findices(indexed.function)[i]) THEN "--" ELSE "++"]]

IsII(o) == o.kind = "TimedAccess"

IterationInstance_eq(self, other) ==
    IF IsII(other) /\ self.findices # other.findices THEN Raise("TypeError")
    ELSE Vector_eq(self, other)

Access_eq(self, other) ==
    LET e == IterationInstance_eq(self, other)
    IN  IF e.exc # "none" \/ ~e.b THEN e
        ELSE RetB(IsII(other) /\ self.function = other.function)

TimedAccess_eq(self, other) ==
    LET e == Access_eq(self, other)
    IN  IF e.exc # "none" \/ ~e.b THEN e
        ELSE RetB(IsII(other) /\ self.direction = other.direction)

\* IterationInstance.__ne__: not self.__eq__(other)
TimedAccess_ne(self, other) ==
    LET e == TimedAccess_eq(self, other)
    IN  IF e.exc # "none" THEN e ELSE RetB(~e.b)

\* (mutant) the direction of the dimensions is ignored
TimedAccess_order_nodir(self, other) ==
    IF self.direction # other.direction \/ Len(self.items) # Len(other.items)
    THEN Raise("TypeError")
    ELSE RetV(SeqSub(self.items, other.items))

\* TimedAccess.order
TimedAccess_order(self, other) ==
    IF self.direction # other.direction \/ Len(self.items) # Len(other.items)
    THEN Raise("TypeError")
    ELSE RetV([i \in 1..Len(self.items) |->
                  IF self.direction[i] = "++"
                  THEN ESub(self.items[i], other.items[i])
                  ELSE ESub(other.items[i], self.items[i])])

\* TimedAccess.__lt__ -> IterationInstance.__lt__ -> Vector.__lt__, whose
\* self.order is TimedAccess.order
TimedAccess_lt(self, other) ==
    IF ~IsII(other) THEN Raise("TypeError")
    ELSE IF self.direction # other.direction THEN Raise("TypeError")
    ELSE IF self.findices # other.findices THEN Raise("TypeError")
    ELSE IF RankMismatch(self, other) THEN Raise("TypeError")
    ELSE LET o == TimedAccess_order(self, other)
         IN  IF o.exc # "none" THEN o ELSE LtOfOrder(o.v)

\* IterationInstance.__gt__: other.__lt__(self)
TimedAccess_gt(self, other) ==
    IF IsII(other) THEN TimedAccess_lt(other, self)
    ELSE Vector_lt(Promote(self, other), self)

\* IterationInstance.__ge__ / __le__
TimedAccess_ge(self, other) ==
    LET e == TimedAccess_eq(self, other)
    IN  IF e.exc # "none" \/ e.b THEN e ELSE TimedAccess_gt(self, other)

TimedAccess_le(self, other) ==
    LET e == TimedAccess_eq(self, other)
    IN  IF e.exc # "none" \/ e.b THEN e ELSE TimedAccess_lt(self, other)

\* (mutant) the distance follows the direction of the dimensions, as order does
IterationInstance_distance_directed(self, sink) ==
    IF ~IsII(sink) THEN Raise("TypeError")
    ELSE IF self.findices # sink.findices THEN Raise("TypeError")
    ELSE TimedAccess_order(self, sink)

\* IterationInstance.distance(sink), dim=None
IterationInstance_distance(self, sink) ==
    IF ~IsII(sink) THEN Raise("TypeError")
    ELSE IF self.findices # sink.findices THEN Raise("TypeError")
    ELSE Vector_distance(self, sink)

\* (mutant) strict where the code is not
lex_ge_strict(self, other) == self.timestamp > other.timestamp

lex_ge(self, other) == self.timestamp >= other.timestamp

\* (mutant) not strict where the code is
lex_gt_weak(self, other) == self.timestamp >= other.timestamp

lex_gt(self, other) == self.timestamp > other.timestamp

lex_lt(self, other) == self.timestamp < other.timestamp

---------------------------------------------------------------------------
(* class Dependence, DependenceGroup *)

Dependence(source, sink) == [source |-> source, sink |-> sink]

RECURSIVE Concat(_)
Concat(ss) == IF Len(ss) = 0 THEN <<>> ELSE Head(ss) \o Concat(Tail(ss))

---------------------------------------------------------------------------
(* class Scope *)

\* An equation: lhs is an Indexed or NoIndexed (a scalar left-hand side);
\* rhs is what retrieve_indexed(e.rhs) yields, in the order it yields it.
NoIndexed == [function |-> "none", indices |-> <<>>]

is_Indexed(lhs) == lhs # NoIndexed

\* dict.setdefault(k, []).append(a) on a dict kept in insertion order
SetDefaultAppend(d, k, a) ==
    IF \E i \in 1..Len(d) : d[i].key = k
    THEN [i \in 1..Len(d) |->
             IF d[i].key = k THEN [key |-> k, val |-> Append(d[i].val, a)] ELSE d[i]]
    ELSE Append(d, [key |-> k, val |-> <<a>>])

\* dict.get(k, [])
Get(d, k) ==
    IF \E i \in 1..Len(d) : d[i].key = k
    THEN d[CHOOSE i \in 1..Len(d) : d[i].key = k].val
    ELSE <<>>

\* enumerate(exprs): the timestamp of the i-th equation
Timestamp(i) == i - 1

RECURSIVE AppendReads(_, _, _)
AppendReads(d, rhs, ts) ==
    IF Len(rhs) = 0 THEN d
    ELSE AppendReads(SetDefaultAppend(d, Head(rhs).function, TimedAccess(Head(rhs), "R", ts)),
                     Tail(rhs), ts)

RECURSIVE ScopeReads(_, _, _)
ScopeReads(d, es, i) ==
    IF i > Len(es) THEN d
    ELSE ScopeReads(AppendReads(d, es[i].rhs, Timestamp(i)), es, i + 1)

RECURSIVE ScopeWrites(_, _, _)
ScopeWrites(d, es, i) ==
    IF i > Len(es) THEN d
    ELSE ScopeWrites(IF is_Indexed(es[i].lhs)
                     THEN SetDefaultAppend(d, es[i].lhs.function,
                                           TimedAccess(es[i].lhs, "W", Timestamp(i)))
                     ELSE d,
                     es, i + 1)

\* (r < w) or (r == w and r.lex_ge(w)); a TypeError counts as a dependence
is_flow(r, w) ==
    LET lt == TimedAccess_lt(r, w)
        eq == TimedAccess_eq(r, w)
    IN  IF lt.exc # "none" THEN TRUE
        ELSE IF lt.b THEN TRUE
        ELSE IF eq.exc # "none" THEN TRUE
        ELSE eq.b /\ lex_ge(r, w)

\* (mutant) the timestamps of iteration-space-equal accesses are not compared
is_anti_nolex(r, w) ==
    LET gt == TimedAccess_gt(r, w)
        eq == TimedAccess_eq(r, w)
    IN  IF gt.exc # "none" THEN TRUE
        ELSE IF gt.b THEN TRUE
        ELSE IF eq.exc # "none" THEN TRUE
        ELSE eq.b

\* (r > w) or (r == w and r.lex_lt(w)); a TypeError counts as a dependence
is_anti(r, w) ==
    LET gt == TimedAccess_gt(r, w)
        eq == TimedAccess_eq(r, w)
    IN  IF gt.exc # "none" THEN TRUE
        ELSE IF gt.b THEN TRUE
        ELSE IF eq.exc # "none" THEN TRUE
        ELSE eq.b /\ lex_lt(r, w)

\* (w2 > w1) or (w2 == w1 and w2.lex_gt(w1)); a TypeError counts as a dependence
is_output(w2, w1) ==
    LET gt == TimedAccess_gt(w2, w1)
        eq == TimedAccess_eq(w2, w1)
    IN  IF gt.exc # "none" THEN TRUE
        ELSE IF gt.b THEN TRUE
        ELSE IF eq.exc # "none" THEN TRUE
        ELSE eq.b /\ lex_gt(w2, w1)

\* The three loops: for k, v in writes.items(): for w in v: for x in other.get(k, [])
FlowOf(w, rs) ==
    LET sel == SelectSeq(rs, LAMBDA r : is_flow(r, w))
    IN  [n \in 1..Len(sel) |-> Dependence(w, sel[n])]

AntiOf(w, rs) ==
    LET sel == SelectSeq(rs, LAMBDA r : is_anti(r, w))
    IN  [n \in 1..Len(sel) |-> Dependence(sel[n], w)]

OutputOf(w1, ws) ==
    LET sel == SelectSeq(ws, LAMBDA w2 : is_output(w2, w1))
    IN  [n \in 1..Len(sel) |-> Dependence(sel[n], w1)]

d_flow(rd, wr) ==
    Concat([i \in 1..Len(wr) |->
        Concat([j \in 1..Len(wr[i].val) |-> FlowOf(wr[i].val[j], Get(rd, wr[i].key))])])

d_anti(rd, wr) ==
    Concat([i \in 1..Len(wr) |->
        Concat([j \in 1..Len(wr[i].val) |-> AntiOf(wr[i].val[j], Get(rd, wr[i].key))])])

d_output(rd, wr) ==
    Concat([i \in 1..Len(wr) |->
        Concat([j \in 1..Len(wr[i].val) |-> OutputOf(wr[i].val[j], Get(wr, wr[i].key))])])

\* cached_property: the slots of one Scope instance
Unset == [set |-> FALSE, val |-> <<>>]

NoCache == [d_flow |-> Unset, d_anti |-> Unset, d_output |-> Unset, d_all |-> Unset]

Computed(v) == [set |-> TRUE, val |-> v]

Get_d_flow(c, rd, wr) ==
    IF c.d_flow.set THEN c ELSE [c EXCEPT !.d_flow = Computed(d_flow(rd, wr))]

Get_d_anti(c, rd, wr) ==
    IF c.d_anti.set THEN c ELSE [c EXCEPT !.d_anti = Computed(d_anti(rd, wr))]

Get_d_output(c, rd, wr) ==
    IF c.d_output.set THEN c ELSE [c EXCEPT !.d_output = Computed(d_output(rd, wr))]

\* (mutant) the flow group is extended in place and returned
Get_d_all_inplace(c, rd, wr) ==
    IF c.d_all.set THEN c
    ELSE LET c3 == Get_d_output(Get_d_anti(Get_d_flow(c, rd, wr), rd, wr), rd, wr)
             al == Computed(c3.d_flow.val \o c3.d_anti.val \o c3.d_output.val)
         IN  [c3 EXCEPT !.d_all = al, !.d_flow = al]

\* self.d_flow + self.d_anti + self.d_output: DependenceGroup.__add__ builds
\* a new group and leaves its operands alone
Get_d_all(c, rd, wr) ==
    IF c.d_all.set THEN c
    ELSE LET c3 == Get_d_output(Get_d_anti(Get_d_flow(c, rd, wr), rd, wr), rd, wr)
         IN  [c3 EXCEPT !.d_all = Computed(c3.d_flow.val \o c3.d_anti.val \o c3.d_output.val)]

---------------------------------------------------------------------------
(* Dependence.cause and the attributes halo_scheme.py reads from accesses   *)
(* and dependences                                                          *)

\* Dependence.__init__: self.distance = source.distance(sink)
Dependence_distance(dep) == IterationInstance_distance(dep.source, dep.sink).v

\* (mutant) a zero distance counts as well
Dependence_cause_nonneg(dep) ==
    LET dist == Dependence_distance(dep)
        hit(i) == ~IsInt(dist[i]) \/ dist[i].k >= 0
    IN  IF \E i \in 1..Len(dist) : hit(i)
        THEN dep.source.findices[CHOOSE i \in 1..Len(dist) :
                                     hit(i) /\ \A j \in 1..(i - 1) : ~hit(j)]
        ELSE "None"

\* Dependence.cause: the first dimension whose distance is > 0, or whose
\* comparison with 0 raises TypeError; "None" when there is none
Dependence_cause(dep) ==
    LET dist == Dependence_distance(dep)
        hit(i) == ~IsInt(dist[i]) \/ dist[i].k > 0
    IN  IF \E i \in 1..Len(dist) : hit(i)
        THEN dep.source.findices[CHOOSE i \in 1..Len(dist) :
                                     hit(i) /\ \A j \in 1..(i - 1) : ~hit(j)]
        ELSE "None"

\* The dimensions `for d in i.cause` / `d in i.cause` range over
CauseDims(dep) == IF Dependence_cause(dep) = "None" THEN {} ELSE {Dependence_cause(dep)}

PosOf(d, findices) == CHOOSE i \in 1..Len(findices) : findices[i] = d

\* TimedAccess.affine(d): the index along d is an int or d plus an int
affine(i, d) ==
    LET e == i.items[PosOf(d, i.findices)]
    IN  IsInt(e) \/ (e.c[d] = 1 /\ \A q \in Syms \ {d} : e.c[q] = 0)

\* TimedAccess.irregular(d)
irregular(i, d) == ~affine(i, d)

\* Dependence.is_regular: source and sink are affine along every dimension
is_regular(dep) ==
    \A n \in 1..Len(dep.source.findices) :
        affine(dep.source, dep.source.findices[n]) /\ affine(dep.sink, dep.sink.findices[n])

\* IterationInstance.index_mode: per dimension, 'regular' for an affine index
\* function and 'irregular' for one that goes through an indirection
index_mode(i) ==
    [n \in 1..Len(i.findices) |->
        IF affine(i, i.findices[n]) THEN "regular" ELSE "irregular"]

\* (mutant) one irregular access is enough
is_indirect_either(dep) ==
    \E n \in 1..Len(dep.source.findices) :
        /\ dep.source.findices[n] = Dependence_cause(dep)
        /\ \/ index_mode(dep.source)[n] \in {"indirect", "irregular"}
           \/ index_mode(dep.sink)[n] \in {"indirect", "irregular"}

\* Dependence.is_indirect
is_indirect(dep) ==
    \E n \in 1..Len(dep.source.findices) :
        /\ dep.source.findices[n] = Dependence_cause(dep)
        /\ index_mode(dep.source)[n] = index_mode(dep.sink)[n]
        /\ index_mode(dep.source)[n] \in {"indirect", "irregular"}

\* Dependence.is_direct
is_direct(dep) == ~is_indirect(dep)

\* DependenceGroup.direct() / indirect()
direct(g) == SelectSeq(g, is_direct)

indirect(g) == SelectSeq(g, is_indirect)

\* DependenceGroup.project(f)
project(g, f) == SelectSeq(g, LAMBDA dep : dep.source.function = f)

---------------------------------------------------------------------------
(* mpi/halo_scheme.py *)

Halo(dim, side, amount) == [dim |-> dim, side |-> side, amount |-> amount]

HaloSchemeEntry(loc_indices, halos) == [loc_indices |-> loc_indices, halos |-> halos]

\* f.grid.is_distributed(d)
is_distributed(grid, d) == d \in grid.distributed

\* (mutant) a side is kept when its amount is not negative
Keep_nonneg(size) == size >= 0

\* if lsize > 0 / if rsize > 0
Keep(size) == size > 0

\* The body of hs_comp_halos' loop for one dimension
HalosOf(fun, d, dspace, withDspace) ==
    LET lsize == IF withDspace THEN fun.offset_domain[d].left - dspace[d][1]
                 ELSE fun.extent_halo[d].left
        rsize == IF withDspace THEN dspace[d][2] - fun.offset_domain[d].right
                 ELSE fun.extent_halo[d].right
    IN  (IF Keep(lsize) THEN <<Halo(d, "LEFT", lsize)>> ELSE <<>>)
        \o (IF Keep(rsize) THEN <<Halo(d, "RIGHT", rsize)>> ELSE <<>>)

hs_comp_halos(fun, dims, dspace, withDspace) ==
    Concat([n \in 1..Len(dims) |-> HalosOf(fun, dims[n], dspace, withDspace)])

\* is_increment of a read: the equation it belongs to is an increment
is_increment(i, es) == es[i.timestamp + 1].inc

\* (mutant) the irregular branch is tried before the increment branch
LabelOf_irregular_first(i, d, grid, es) ==
    IF affine(i, d)
    THEN IF is_distributed(grid, d) THEN "STENCIL" ELSE "NONE"
    ELSE IF irregular(i, d) /\ is_distributed(grid, d) THEN "FULL"
    ELSE IF is_increment(i, es) THEN "UNSUPPORTED"
    ELSE "-"

\* The label appended for read i along d; "-" when no branch applies
LabelOf(i, d, grid, es) ==
    IF affine(i, d)
    THEN IF is_distributed(grid, d) THEN "STENCIL" ELSE "NONE"
    ELSE IF is_increment(i, es) THEN "UNSUPPORTED"
    ELSE IF irregular(i, d) /\ is_distributed(grid, d) THEN "FULL"
    ELSE "-"

RECURSIVE ClassifyDims(_, _, _, _, _)
ClassifyDims(v, i, n, grid, es) ==
    IF n > Len(i.findices) THEN v
    ELSE LET d == i.findices[n]
             l == LabelOf(i, d, grid, es)
         IN  ClassifyDims(IF l = "-" THEN v ELSE SetDefaultAppend(v, d, l),
                          i, n + 1, grid, es)

RECURSIVE ClassifyReads(_, _, _, _)
ClassifyReads(v, r, grid, es) ==
    IF Len(r) = 0 THEN v
    ELSE ClassifyReads(ClassifyDims(v, Head(r), 1, grid, es), Tail(r), grid, es)

SetOf(q) == {q[n] : n \in 1..Len(q)}

\* hs_classify before its sanity check: Function -> (Dimension -> [HaloLabel]);
\* a data object without grid is skipped
LabelLists(rd, grid, es) ==
    LET kept == SelectSeq(rd, LAMBDA e : grid.present)
    IN  [n \in 1..Len(kept) |->
            [key |-> kept[n].key, val |-> ClassifyReads(<<>>, kept[n].val, grid, es)]]

\* (mutant) the sanity check is skipped
Inconsistent_never(ll) == FALSE

\* len(unique_hl) != 1 for some (data object, dimension)
Inconsistent(ll) ==
    \E n \in 1..Len(ll) : \E k \in 1..Len(ll[n].val) :
        Cardinality(SetOf(ll[n].val[k].val)) # 1

\* v[d] = unique_hl.pop()
hs_classify(ll) ==
    [n \in 1..Len(ll) |->
        [key |-> ll[n].key,
         val |-> [k \in 1..Len(ll[n].val) |->
                     [key |-> ll[n].val[k].key, val |-> ll[n].val[k].val[1]]]]]

\* hs_preprocess raises: `f` requires a Grid
NeedsGrid(all, grid) == Len(all) > 0 /\ ~grid.present

\* hs_preprocess raises: a regular dependence is caused by a distributed dimension
DistributedCause(all, grid) ==
    \E n \in 1..Len(all) :
        is_regular(all[n]) /\ \E d \in CauseDims(all[n]) : is_distributed(grid, d)

\* [d for d, hl in v.items() if hl is label]
DimsWith(v, label) ==
    LET sel == SelectSeq(v, LAMBDA e : e.val = label)
    IN  [n \in 1..Len(sel) |-> sel[n].key]

\* f._time_size of the TimeFunction u
time_size == 2

\* as_mapper(subiters, lambda md: md.modulo)[f._time_size], keyed by origin:
\* the sub-iterator found under origin e; a later one replaces an earlier one
SubMap(subs, e) ==
    LET sel == SelectSeq(subs, LAMBDA i : i.modulo = time_size /\ i.origin = e)
    IN  IF Len(sel) = 0 THEN [sub |-> "KeyError", index |-> e]
        ELSE [sub |-> sel[Len(sel)].name, index |-> sel[Len(sel)].origin]

\* d.root + last, an index that is no sub-iterator
RootPlus(e) == [sub |-> "none", index |-> e]

\* (mutant) the shift is not taken off the last point
Last_noshift(dir, lower, upper, shift) == IF dir = "Forward" THEN upper ELSE lower

\* last = upper - shift if Forward else lower + shift
Last(dir, lower, upper, shift) ==
    IF dir = "Forward" THEN upper - shift ELSE lower + shift

\* (mutant) the shift is 1 when a dependence on f has a cause, whichever it is
LocIndexOf_anycause(f, d, dir, dspace, all, step, subs) ==
    LET lower == dspace[d][1]
        upper == dspace[d][2]
        shift == IF \E n \in 1..Len(project(all, f)) : CauseDims(project(all, f)[n]) # {}
                 THEN 1 ELSE 0
        last  == Last(dir, lower, upper, shift)
    IN  [key |-> d,
         val |-> IF step THEN SubMap(subs, Sym(d, last)) ELSE RootPlus(Sym(d, last))]

\* hs_comp_locindices, one dimension: the sub-iterator whose origin is d + last
\* when d is stepping, d.root + last otherwise
LocIndexOf(f, d, dir, dspace, all, step, subs) ==
    LET lower == dspace[d][1]
        upper == dspace[d][2]
        shift == IF \E n \in 1..Len(project(all, f)) : d \in CauseDims(project(all, f)[n])
                 THEN 1 ELSE 0
        last  == Last(dir, lower, upper, shift)
    IN  [key |-> d,
         val |-> IF step THEN SubMap(subs, Sym(d, last)) ELSE RootPlus(Sym(d, last))]

hs_comp_locindices(f, dims, dir, dspace, all, step, subs) ==
    [n \in 1..Len(dims) |-> LocIndexOf(f, dims[n], dir, dspace, all, step, subs)]

\* The halos computed for one classified data object
HalosFor(v, fun, dspace) ==
    hs_comp_halos(fun, DimsWith(v, "STENCIL"), dspace, TRUE)
        \o hs_comp_halos(fun, DimsWith(v, "FULL"), dspace, FALSE)

\* (mutant) every classified data object gets an entry
HasEntry_always(halos) == TRUE

\* if halos:
HasEntry(halos) == Len(halos) > 0

\* The loop of HaloScheme.__init__ over the classification
Mapper(cl, fun, dir, dspace, all, step, subs) ==
    LET ents == [n \in 1..Len(cl) |->
                    [key |-> cl[n].key,
                     val |-> HaloSchemeEntry(
                                 hs_comp_locindices(cl[n].key, DimsWith(cl[n].val, "NONE"),
                                                    dir, dspace, all, step, subs),
                                 HalosFor(cl[n].val, fun, dspace))]]
    IN  SelectSeq(ents, LAMBDA e : HasEntry(e.val.halos))

\* submap[d + last] found no sub-iterator for some dimension
LookupFails(mp) ==
    \E n \in 1..Len(mp) : \E k \in 1..Len(mp[n].val.loc_indices) :
        mp[n].val.loc_indices[k].val.sub = "KeyError"

\* HaloScheme.__init__(exprs, ispace, dspace)
HaloScheme(es, grid, fun, dir, dspace, step, subs) ==
    LET rd  == ScopeReads(<<>>, es, 1)
        wr  == ScopeWrites(<<>>, es, 1)
        all == Get_d_all(NoCache, rd, wr).d_all.val
        ll  == LabelLists(rd, grid, es)
    IN  IF NeedsGrid(all, grid) \/ DistributedCause(all, grid) \/ Inconsistent(ll)
        THEN [status |-> "HaloSchemeException", mapper |-> <<>>]
        ELSE LET mp == Mapper(hs_classify(ll), fun, dir, dspace, all, step, subs)
             IN  IF LookupFails(mp) THEN [status |-> "KeyError", mapper |-> <<>>]
                 ELSE [status |-> "built", mapper |-> mp]

\* product(f.dimensions, [LEFT, RIGHT])
DimensionSides(f) ==
    [n \in 1..(2 * Len(Findices(f))) |->
        <<Findices(f)[(n + 1) \div 2], IF n % 2 = 1 THEN "LEFT" ELSE "RIGHT">>]

\* (mutant) a record for the dimension on either side counts
Needed_anyside(halos, i) ==
    \E k \in 1..Len(halos) : halos[k].dim = i[1]

\* i in needed, needed = [(i.dim, i.side) for i in v.halos]
Needed(halos, i) ==
    \E k \in 1..Len(halos) : halos[k].dim = i[1] /\ halos[k].side = i[2]

\* The OrderedDict mask builds for one data object
MaskOf(f, v) ==
    LET kept == SelectSeq(DimensionSides(f),
                          LAMBDA i : ~\E k \in 1..Len(v.loc_indices) :
                                          v.loc_indices[k].key = i[1])
    IN  [n \in 1..Len(kept) |-> [key |-> kept[n], val |-> Needed(v.halos, kept[n])]]

\* HaloScheme.mask: a data object gets a key when a first pair is set for it
mask(fmapper) ==
    LET ents == [n \in 1..Len(fmapper) |->
                    [key |-> fmapper[n].key, val |-> MaskOf(fmapper[n].key, fmapper[n].val)]]
    IN  SelectSeq(ents, LAMBDA e : Len(e.val) > 0)

---------------------------------------------------------------------------
(* ir/clusters/cluster.py *)

\* An equation: its class and its sides (lhs, rhs); == compares both
Equation(cls, sides) == [cls |-> cls, sides |-> sides]

\* Eq(*i.args, evaluate=False): a plain Eq with the sides of i
Eq_of(e) == Equation("Eq", e.sides)

\* set(atomics or []) and frozenset(atomics or ())
SetOfAtomics(atomics) == [frozen |-> FALSE, elems |-> atomics.elems]

FrozenSetOfAtomics(atomics) == [frozen |-> TRUE, elems |-> atomics.elems]

\* guards or {}: an empty mapping is replaced by a new dict
GuardsOrDict(guards) ==
    IF guards.items = {} THEN [frozen |-> FALSE, items |-> {}] ELSE guards

FrozenDict(guards) == [frozen |-> TRUE, items |-> guards.items]

\* PartialCluster.__init__
PartialCluster(eqs, ispace, atomics, guards) ==
    [cls     |-> "PartialCluster",
     exprs   |-> [kind |-> "list", items |-> eqs.items],
     ispace  |-> ispace,
     atomics |-> SetOfAtomics(atomics),
     guards  |-> GuardsOrDict(guards)]

\* (mutant) the guards are left out
Cluster_noguards(eqs, ispace, atomics, guards) ==
    [cls     |-> "Cluster",
     exprs   |-> [kind |-> "tuple",
                  items |-> [n \in 1..Len(eqs.items) |-> Eq_of(eqs.items[n])]],
     ispace  |-> ispace,
     atomics |-> FrozenSetOfAtomics(atomics),
     guards  |-> [frozen |-> TRUE, items |-> {}]]

\* Cluster.__init__
Cluster(eqs, ispace, atomics, guards) ==
    [cls     |-> "Cluster",
     exprs   |-> [kind |-> "tuple",
                  items |-> [n \in 1..Len(eqs.items) |-> Eq_of(eqs.items[n])]],
     ispace  |-> ispace,
     atomics |-> FrozenSetOfAtomics(atomics),
     guards  |-> FrozenDict(guards)]

\* isinstance(i, Cluster) and isinstance(i, PartialCluster): Cluster is a
\* subclass of PartialCluster
IsCluster(o) == o.cls = "Cluster"

IsPartialCluster(o) == o.cls \in {"PartialCluster", "Cluster"}

\* i in self.exprs
Contains(items, e) == \E n \in 1..Len(items) : items[n] = e

\* (mutant) the iteration spaces are not compared
SameIspace_any(a, b) == TRUE

\* self.ispace == other.ispace
SameIspace(a, b) == a = b

\* self.exprs.extend([i for i in other.exprs if i not in self.exprs])
Extended(mine, others) ==
    mine \o SelectSeq(others, LAMBDA e : ~Contains(mine, e))

\* (mutant) Cluster inherits the setter of PartialCluster
SetterRaises_never(o) == FALSE

\* The exprs setter of the object's class raises AttributeError
SetterRaises(o) == IsCluster(o)

\* The outcome of a call: what was called on which object with which
\* argument, the exception raised and the object returned (0: none)
Call(op, self, other, arg, exc, ret) ==
    [op |-> op, self |-> self, other |-> other, arg |-> arg, exc |-> exc, ret |-> ret]

NoClusterCall == Call("none", 0, 0, <<>>, "none", 0)

\* ClusterGroup.unfreeze, for the group of object identities g: the new
\* objects allocated and the members of the new group
UnfreezeNew(heap, g) ==
    LET cl == SelectSeq(g, LAMBDA i : IsCluster(heap[i]))
    IN  [n \in 1..Len(cl) |->
            PartialCluster(heap[cl[n]].exprs, heap[cl[n]].ispace,
                           heap[cl[n]].atomics, heap[cl[n]].guards)]

UnfreezeMembers(heap, g) ==
    [n \in 1..Len(g) |->
        IF IsCluster(heap[g[n]])
        THEN Len(heap) + Cardinality({k \in 1..n : IsCluster(heap[g[k]])})
        ELSE g[n]]

\* ClusterGroup.finalize
FinalizeNew(heap, g) ==
    LET pc == SelectSeq(g, LAMBDA i : IsPartialCluster(heap[i]))
    IN  [n \in 1..Len(pc) |->
            Cluster(heap[pc[n]].exprs, heap[pc[n]].ispace,
                    heap[pc[n]].atomics, heap[pc[n]].guards)]

FinalizeMembers(heap, g) ==
    [n \in 1..Len(g) |->
        IF IsPartialCluster(heap[g[n]])
        THEN Len(heap) + Cardinality({k \in 1..n : IsPartialCluster(heap[g[k]])})
        ELSE g[n]]

\* The equations clusters are built from
EqA == Equation("Eq", "a")

EqB == Equation("Eq", "b")

LoweredEqA == Equation("LoweredEq", "a")

\* The lists a PartialCluster is built with or assigned, and the tuples of
\* a Cluster (plain Eq only)
PartialLists == {<<EqA>>, <<EqA, EqB>>, <<EqB, EqB>>, <<LoweredEqA>>}

ClusterTuples == {<<EqA>>, <<EqA, EqB>>}

Ispaces == {"i1", "i2"}

\* atomics and guards: none, or the atomic dimension x and a guard on it
Metas == {[atomics |-> {}, guards |-> {}], [atomics |-> {"x"}, guards |-> {"g"}]}

ClusterObjects ==
    {PartialCluster([kind |-> "list", items |-> l], i,
                    [frozen |-> FALSE, elems |-> m.atomics],
                    [frozen |-> FALSE, items |-> m.guards]) :
         l \in PartialLists, i \in Ispaces, m \in Metas}
    \cup
    {Cluster([kind |-> "list", items |-> l], i,
             [frozen |-> FALSE, elems |-> m.atomics],
             [frozen |-> FALSE, items |-> m.guards]) :
         l \in ClusterTuples, i \in Ispaces, m \in Metas}

ClusterIdle ==
    /\ objs = <<>> /\ groups = <<>> /\ kinds = <<>>
    /\ cres = NoClusterCall /\ ncalls = 0

---------------------------------------------------------------------------
(* core/autotuning.py *)

\* options['at_squeezer'], options['at_blocksize'], operator.dtype().itemsize
at_squeezer == 5

at_blocksize == <<8, 16, 24, 32, 40, 64, 128>>

itemsize == 4

\* A list with its items laid out: the tuple of a function on 1 .. n
List(f) == f \o <<>>

HasKey(d, k) == \E i \in 1..Len(d) : d[i].key = k

\* d[k] = v on a dict kept in insertion order
Put(d, k, v) ==
    IF HasKey(d, k)
    THEN List([i \in 1..Len(d) |-> IF d[i].key = k THEN [key |-> k, val |-> v] ELSE d[i]])
    ELSE Append(d, [key |-> k, val |-> v])

\* (mutant) at_arguments is the caller's dict itself
ArgumentsCopy_alias == "orig"

\* at_arguments = arguments.copy(): the dict that at_arguments names
ArgumentsCopy == "at"

\* at_arguments, and at_arguments[k] = v
AtArgs(st) == IF st.ref = "at" THEN st.at ELSE st.orig

SetAt(st, k, v) ==
    IF st.ref = "at" THEN [st EXCEPT !.at = Put(@, k, v)]
    ELSE [st EXCEPT !.orig = Put(@, k, v)]

\* (mutant) the caller's buffer is passed on
Copied_alias(bufs, v) == [id |-> v, bufs |-> bufs]

\* v.copy(): a new buffer with the content of v
Copied(bufs, v) == [id |-> Len(bufs) + 1, bufs |-> Append(bufs, bufs[v])]

\* [i.name for i in operator.output], and the arguments the operator writes
output == {"u"}

OperatorWrites == {"u"}

\* for k, v in arguments.items(): if k in output: at_arguments[k] = v.copy()
RECURSIVE CopyOutputs(_, _, _)
CopyOutputs(st, args, n) ==
    IF n > Len(args) THEN st
    ELSE IF args[n].key \in output
    THEN LET c == Copied(st.bufs, args[n].val)
         IN  CopyOutputs([SetAt(st, args[n].key, c.id) EXCEPT !.bufs = c.bufs], args, n + 1)
    ELSE CopyOutputs(st, args, n + 1)

\* Iteration.extent(start, finish): the number of iterations from start
\* up to finish
Iteration_extent(start, finish) == finish - start

\* The shrunk count of time steps, c being sequential.extent(start, at_squeezer)
Timesteps(c) == IF c < 0 THEN at_squeezer - c + 1 ELSE c

\* The bindings of the sequential dimension and of its parent when stepping
Shrink(st, in) ==
    LET timesteps == Timesteps(Iteration_extent(in.start, at_squeezer))
        s1 == SetAt(st, "t_size", timesteps)
    IN  IF in.stepping THEN SetAt(s1, "time_size", timesteps) ELSE s1

\* A candidate: one block size per tunable argument, in the order of mapper
Square(n, v) == List([k \in 1..n |-> v])

\* The default candidates, then the entire iteration space
BasicBlocksizes(in) ==
    Append(List([i \in 1..Len(at_blocksize) |-> Square(Len(in.tunable), at_blocksize[i])]),
           List([k \in 1..Len(in.tunable) |-> in.ext[in.tunable[k]]]))

\* list.index(e) + 1 and list.insert(i, e)
IndexOf(q, e) == CHOOSE i \in 1..Len(q) : q[i] = e /\ \A j \in 1..(i - 1) : q[j] # e

InsertAt(q, i, e) == SubSeq(q, 1, i) \o <<e>> \o SubSeq(q, i + 1, Len(q))

\* Ramp up to higher block sizes
RECURSIVE RampUp(_, _, _)
RampUp(bss, handle, n) ==
    IF n = 0 THEN bss
    ELSE LET new_bs == List([k \in 1..Len(handle) |-> handle[k] * 2])
         IN  RampUp(InsertAt(bss, IndexOf(bss, handle), new_bs), new_bs, n - 1)

\* The items of n lists of m items each, list after list
Chain(n, m, lists) ==
    List([i \in 1..(n * m) |-> lists[((i - 1) \div m) + 1][((i - 1) % m) + 1]])

\* Extended shuffling for the smaller block sizes
Shuffled(bss) ==
    LET few == SubSeq(bss, 1, IF Len(bss) < 4 THEN Len(bss) ELSE 4)
    IN  Chain(Len(few), Len(bss), List([b \in 1..Len(few) |->
            List([i \in 1..Len(bss) |->
                SubSeq(few[b], 1, Len(few[b]) - 1) \o <<bss[i][Len(bss[i])]>>])]))

\* itertools.combinations(bs, i + 1) for i in range(len(bs)): the non-empty
\* sets of positions, by size and then in lexicographic order
ComesBefore(a, b) ==
    \/ Cardinality(a) < Cardinality(b)
    \/ /\ Cardinality(a) = Cardinality(b)
       /\ a # b
       /\ (CHOOSE x \in (a \ b) \cup (b \ a) :
               \A y \in (a \ b) \cup (b \ a) : x <= y) \in a

RECURSIVE InOrder(_)
InOrder(S) ==
    IF S = {} THEN <<>>
    ELSE LET m == CHOOSE a \in S : \A b \in S \ {a} : ComesBefore(a, b)
         IN  <<m>> \o InOrder(S \ {m})

\* Some more shuffling for all block sizes
Doubled(bss) ==
    LET n  == Len(bss[1])
        cs == InOrder((SUBSET (1..n)) \ {{}})
    IN  Chain(Len(bss), Len(cs), List([b \in 1..Len(bss) |->
            List([c \in 1..Len(cs) |->
                List([k \in 1..n |-> IF k \in cs[c] THEN bss[b][k] * 2 ELSE bss[b][k]])])]))

\* The items of q without repetition, each at its first position
Unique(q) ==
    LET firsts == {i \in 1..Len(q) : \A j \in 1..(i - 1) : q[j] # q[i]}
        rank   == [i \in firsts |-> Cardinality({j \in firsts : j <= i})]
    IN  List([n \in 1..Cardinality(firsts) |-> q[CHOOSE i \in firsts : rank[i] = n]])

more_heuristic_attempts(blocksizes) ==
    LET ramped == RampUp(blocksizes,
                         Square(Len(blocksizes[1]), at_blocksize[Len(at_blocksize)]), 3)
        all    == IF Len(ramped) > 0
                  THEN ramped \o Shuffled(ramped) \o Doubled(ramped)
                  ELSE ramped
    IN  IF Len(all) > 0 THEN Unique(all) ELSE all

Blocksizes(in) ==
    IF in.mode = "aggressive" THEN more_heuristic_attempts(BasicBlocksizes(in))
    ELSE BasicBlocksizes(in)

\* (mutant) every block size is taken
Fits_always(val, extent) == TRUE

\* val <= mapper[k].iteration.extent(0, handle)
Fits(val, extent) == val <= extent

\* for k, v in at_arguments.items(): the block sizes of bs are bound key by
\* key, up to the first one that is larger than the extent of its dimension
BindBlocks(st, bs, in) ==
    LET at  == AtArgs(st)
        bad == {n \in 1..Len(at) :
                   /\ at[n].key \in SetOf(in.tunable)
                   /\ ~Fits(bs[PosOf(at[n].key, in.tunable)], in.ext[at[n].key])}
        new == List([n \in 1..Len(at) |->
                   IF at[n].key \in SetOf(in.tunable) /\ \A m \in bad : n < m
                   THEN [key |-> at[n].key, val |-> bs[PosOf(at[n].key, in.tunable)]]
                   ELSE at[n]])
    IN  [st |-> IF st.ref = "at" THEN [st EXCEPT !.at = new] ELSE [st EXCEPT !.orig = new],
         illegal |-> bad # {}]

RECURSIVE Product(_)
Product(q) == IF Len(q) = 0 THEN 1 ELSE Head(q) * Product(Tail(q))

\* stack_space with the block sizes substituted: no stack array, or one
\* array of block shape
StackSpace(stack, bs) == IF stack = "none" THEN 0 ELSE Product(bs) * itemsize

\* int(bs_stack_space) > options['at_stack_limit'], the limit being a
\* quarter of RLIMIT_STACK; a stack size that stays symbolic raises
\* TypeError and the block size is skipped as well
Skipped(stack, bs, rlimit) ==
    \/ stack = "symbolic"
    \/ StackSpace(stack, bs) * 4 > rlimit

\* One trial: the profiler struct is set up, the operator runs on
\* at_arguments and writes its outputs, the elapsed time is recorded
Trial(st, pos, bs, elapsed) ==
    LET s1 == SetAt(st, "timers", st.nsetup + 1)
        written == {Get(AtArgs(s1), k) : k \in OperatorWrites}
    IN  [s1 EXCEPT !.nsetup = @ + 1,
                   !.bufs = List([i \in 1..Len(@) |-> IF i \in written THEN @[i] + 1 ELSE @[i]]),
                   !.runs = Append(@, [pos |-> pos, bs |-> bs, args |-> AtArgs(s1),
                                        elapsed |-> elapsed]),
                   !.timings = Put(@, bs, elapsed)]

\* The body of the loop for the candidate at position i
Attempt(st, cands, i, in, el) ==
    LET fit == BindBlocks(st, cands[i], in)
    IN  IF fit.illegal \/ Skipped(in.stack, cands[i], in.rlimit)
        THEN fit.st
        ELSE Trial(fit.st, i, cands[i], el[i])

\* for bs in blocksizes: the candidates at positions lo .. hi, in order,
\* the first half of them and then the second
RECURSIVE Trials(_, _, _, _, _, _)
Trials(st, cands, lo, hi, in, el) ==
    IF lo > hi THEN st
    ELSE IF lo = hi THEN Attempt(st, cands, lo, in, el)
    ELSE LET half == Trials(st, cands, lo, (lo + hi) \div 2, in, el)
         IN  IF half.nsetup >= 0
             THEN Trials(half, cands, (lo + hi) \div 2 + 1, hi, in, el)
             ELSE st

\* (mutant) the first key is taken
Best_first(timings) == timings[1].key

\* min(timings, key=timings.get): the first key with the least value
Best(timings) ==
    timings[CHOOSE i \in 1..Len(timings) :
                /\ \A j \in 1..Len(timings) : timings[i].val <= timings[j].val
                /\ \A j \in 1..(i - 1) : timings[j].val > timings[i].val].key

\* Build the new argument list, and reset the profiling struct
Tuned(args, best, in, nsetup) ==
    Put(List([n \in 1..Len(args) |->
            IF args[n].key \in SetOf(in.tunable)
            THEN [key |-> args[n].key, val |-> best[PosOf(args[n].key, in.tunable)]]
            ELSE args[n]]),
        "timers", nsetup + 1)

\* autotune(operator, arguments, tunable): the caller's dict and buffers
\* afterwards, what is returned (same: the caller's dict itself), and the
\* trials made
Outcome(st, same, ret, cands) ==
    [status |-> "returned", same |-> same, ret |-> ret, runs |-> st.runs,
     timings |-> st.timings, cands |-> cands, args |-> st.orig, bufs |-> st.bufs]

autotune(args, bufs, in, el) ==
    LET st0 == [ref |-> ArgumentsCopy, orig |-> args, at |-> args, bufs |-> bufs,
                nsetup |-> 0, runs |-> <<>>, timings |-> <<>>]
        st1 == CopyOutputs(st0, args, 1)
    IN  IF in.nseq > 1 THEN Outcome(st1, TRUE, st1.orig, <<>>)
        ELSE LET st2 == IF in.nseq = 1 THEN Shrink(st1, in) ELSE st1
                 blocksizes == Blocksizes(in)
                 st3 == IF Len(blocksizes) > 0
                        THEN Trials(st2, blocksizes, 1, Len(blocksizes), in, el)
                        ELSE st2
             IN  IF Len(st3.timings) = 0
                 THEN Outcome(st3, TRUE, st3.orig, blocksizes)
                 ELSE Outcome(st3, FALSE,
                              Tuned(st3.orig, Best(st3.timings), in, st3.nsetup),
                              blocksizes)

\* The arguments of the call: the output buffer u and the input buffer v,
\* the sizes of the dimensions, the block sizes, the profiler struct
Arguments(in) ==
    <<[key |-> "u", val |-> 1], [key |-> "v", val |-> 2],
      [key |-> "t_size", val |-> 10], [key |-> "time_size", val |-> 10]>>
    \o [k \in 1..Len(in.tunable) |-> [key |-> in.tunable[k], val |-> 1]]
    \o <<[key |-> "timers", val |-> 0]>>

Tunables == {<<"xb">>, <<"xb", "yb">>}

Extents == {4, 8, 16}

\* RLIMIT_STACK: unlimited (RLIM_INFINITY is -1), or a number of bytes
StackLimits == {-1, 128, 8192}

\* The elapsed times the profiler reports
Elapsed == {1, 2}

\* sequential.dim.rtargs.start.default_value: the first time step
Starts == {2, 5, 6}

TuneInputs ==
    {in \in [nseq : 0..2, start : Starts, stepping : BOOLEAN,
             tunable : Tunables, ext : [{"xb", "yb"} -> Extents],
             mode : {"basic", "aggressive"},
             stack : {"none", "blocks", "symbolic"}, rlimit : StackLimits] :
        /\ in.nseq # 1 => in.start = 2 /\ ~in.stepping
        /\ Len(in.tunable) = 1 => in.ext["yb"] = 4}

\* The content of the caller's buffers u and v before the call
CallerBuffers == <<7, 9>>

NotTuned == [status |-> "none"]

TuneIdle == aargs = <<>> /\ abufs = <<>> /\ ain = <<>> /\ aout = NotTuned

---------------------------------------------------------------------------
(* devito/__init__.py: clear_cache and the symbol cache *)

\* A cached object: what keeps it alive is a variable of the caller (held),
\* SymPy's cache (cached) or a reference cycle it is part of (cyclic)
Object(held, cached, cyclic) ==
    [held |-> held, cached |-> cached, cyclic |-> cyclic, alive |-> TRUE]

\* Reference counting: an object nothing refers to any more is deallocated
Released(heap) ==
    [o \in 1..Len(heap) |->
        [heap[o] EXCEPT !.alive = heap[o].alive
                                  /\ (heap[o].held \/ heap[o].cached \/ heap[o].cyclic)]]

\* _SymbolCache[key] = weakref.ref(obj), under a key of its own
CachePut(symc, o) == Append(symc, [key |-> o, ref |-> o])

\* cache.clear_cache(): SymPy's cache drops its references
sympy_clear_cache(heap) ==
    Released([o \in 1..Len(heap) |-> [heap[o] EXCEPT !.cached = FALSE]])

\* (mutant) the cycles are left to a later collection
gc_collect_later(heap) == heap

\* gc.collect(): the cycles nothing else refers to are deallocated
gc_collect(heap) ==
    Released([o \in 1..Len(heap) |->
                 [heap[o] EXCEPT !.cyclic = heap[o].cyclic
                                            /\ (heap[o].held \/ heap[o].cached)]])

\* val() is None
IsNone(heap, val) == ~heap[val.ref].alive

\* clear_cache()
clear_cache(heap, symc) ==
    LET collected == gc_collect(sympy_clear_cache(heap))
    IN  [heap  |-> collected,
         cache |-> SelectSeq(symc, LAMBDA val : ~IsNone(collected, val))]

\* The objects a variable of the caller refers to
Held(heap) == {o \in 1..Len(heap) : heap[o].held}

\* cache_size = len(_SymbolCache), with the objects held and created so far
Measure(heap, symc) == [size |-> Len(symc), held |-> Held(heap), created |-> Len(heap)]

SymIdle == sheap = <<>> /\ symcache = <<>> /\ smeas = <<>> /\ sop = "none"

---------------------------------------------------------------------------
(* Inputs *)

SymOffsets == {0, 1}

VecEntries ==
    {Num(n) : n \in (0 - MaxOff)..MaxOff} \cup {Sym("x", n) : n \in SymOffsets}

Vectors == {Vector(s) : s \in UNION {[1..n -> VecEntries] : n \in 1..MaxRank}}

Scalars == {Scalar(e) : e \in VecEntries}

TimedAccesses ==
    {TimedAccess(ix, m, ts) : ix \in Indexeds, m \in {"R", "W"}, ts \in 0..(MaxEqs - 1)}

Equations == [lhs : Indexeds \cup {NoIndexed},
              rhs : {<<>>} \cup {<<ix>> : ix \in Indexeds}]

EqLists == UNION {[1..n -> Equations] : n \in 0..MaxEqs}

NoFirst == [reads |-> <<>>, writes |-> <<>>, groups |-> NoCache]

\* The equations a HaloScheme is built for: they write and read the
\* TensorFunction u(t, x); inc marks an increment
HaloLhs == {Indexed("u", <<Sym("t", 1), Sym("x", 0)>>),
            Indexed("u", <<Sym("t", 0), Sym("x", 1)>>),
            NoIndexed}

HaloRhs == {<<>>,
            <<Indexed("u", <<Sym("t", 0), Sym("x", 0)>>)>>,
            <<Indexed("u", <<Sym("t", 0), Sym("x", 1)>>)>>,
            <<Indexed("u", <<Sym("t", 0), Sym("p", 0)>>)>>}

\* u[t-1,x] = f(u[t,x]) and u[t+1,x] = f(u[t+1,x])
HaloExamples ==
    {[lhs |-> Indexed("u", <<Sym("t", -1), Sym("x", 0)>>),
      rhs |-> <<Indexed("u", <<Sym("t", 0), Sym("x", 0)>>)>>, inc |-> FALSE],
     [lhs |-> Indexed("u", <<Sym("t", 1), Sym("x", 0)>>),
      rhs |-> <<Indexed("u", <<Sym("t", 1), Sym("x", 0)>>)>>, inc |-> FALSE]}

HaloEquations ==
    {e \in [lhs : HaloLhs, rhs : HaloRhs, inc : BOOLEAN] : e.inc => e.lhs # NoIndexed}
        \cup HaloExamples

HaloEqLists == UNION {[1..n -> HaloEquations] : n \in 0..MaxEqs}

\* f.grid: None, or a Grid that decomposes x or not (t is never decomposed)
Grids == {[present |-> FALSE, distributed |-> {}],
          [present |-> TRUE, distributed |-> {}],
          [present |-> TRUE, distributed |-> {"x"}]}

Sides == [left : 0..MaxHalo, right : 0..MaxHalo]

PadSizes == {0, 1}

\* f._extent_halo and f._offset_domain (halo plus padding) along x
Funs ==
    {[extent_halo |-> [x |-> h],
      offset_domain |-> [x |-> [left |-> h.left + pad, right |-> h.right + pad]]] :
        h \in Sides, pad \in PadSizes}

\* The accesses of the equations, written and read
AccessesOf(es) ==
    {es[n].lhs : n \in {i \in 1..Len(es) : es[i].lhs # NoIndexed}}
        \cup {es[n].rhs[1] : n \in {i \in 1..Len(es) : Len(es[i].rhs) = 1}}

\* The offsets from t at which the equations access the time slots of u
TimeOffsets(es) ==
    {ix.indices[1].k : ix \in AccessesOf(es)}

\* The interval of t in the data space: from the lowest to the highest offset accessed
TimeLimits(es) ==
    IF TimeOffsets(es) = {} THEN <<0, 0>>
    ELSE <<CHOOSE lo \in TimeOffsets(es) : \A o \in TimeOffsets(es) : lo <= o,
           CHOOSE up \in TimeOffsets(es) : \A o \in TimeOffsets(es) : up >= o>>

\* dspace[f][d].limits: along x any interval, along t the one the equations access
DataSpaces(es) ==
    {[t |-> TimeLimits(es), x |-> <<lo, up>>] :
        <<lo, up>> \in {q \in (0..(MaxHalo + 1)) \X (0..(MaxHalo + 1)) : q[1] <= q[2]}}

Directions == {"Forward", "Backward"}

ModuloDimension(name, origin, modulo) == [name |-> name, origin |-> origin, modulo |-> modulo]

\* The sub-iterators of a stepping t: one modulo dimension per offset
\* accessed, t0, t1, .. from the lowest offset up
SubIterators(es) ==
    LET offs  == TimeOffsets(es)
        names == <<"t0", "t1", "t2">>
        nth(n) == CHOOSE o \in offs : Cardinality({q \in offs : q < o}) = n - 1
    IN  [n \in 1..Cardinality(offs) |-> ModuloDimension(names[n], Sym("t", nth(n)), time_size)]

\* t is a plain dimension without sub-iterators, or a stepping dimension
\* with its modulo sub-iterators
Steppings(es) ==
    {[step |-> FALSE, subs |-> <<>>],
     [step |-> TRUE, subs |-> SubIterators(es)]}

NoScheme == [status |-> "none", mapper |-> <<>>]

HaloIdle ==
    /\ hexprs = <<>> /\ hgrid = [present |-> FALSE, distributed |-> {}]
    /\ hfun = <<>> /\ hdspace = <<>> /\ hdir = "Forward" /\ hout = NoScheme
    /\ hstep = FALSE /\ hsub = <<>> /\ hmask = Unset

VecIdle == va = Vector(<<>>) /\ vb = Vector(<<>>) /\ vop = "idle" /\ vres = NoCall

ScopeIdle ==
    /\ exprs = <<>> /\ reads = <<>> /\ writes = <<>>
    /\ cache = NoCache /\ gen = 0 /\ first = NoFirst

---------------------------------------------------------------------------
(* Vector operations: two operands are drawn, then one operation is applied *)

VecInit ==
    /\ \/ va \in Vectors /\ vb \in Vectors \cup Scalars
       \/ va \in TimedAccesses /\ vb \in TimedAccesses
    /\ vop = "none"
    /\ vres = NoCall
    /\ ScopeIdle
    /\ HaloIdle
    /\ ClusterIdle
    /\ TuneIdle
    /\ SymIdle

Apply(op, r) ==
    /\ vop = "none"
    /\ vop' = op
    /\ vres' = r
    /\ UNCHANGED <<va, vb>>
    /\ UNCHANGED scopeVars
    /\ UNCHANGED haloVars
    /\ UNCHANGED clusterVars
    /\ UNCHANGED tuneVars
    /\ UNCHANGED symVars

Op_eq == Apply("eq", IF IsII(va) THEN TimedAccess_eq(va, vb) ELSE Vector_eq(va, vb))

Op_ne == Apply("ne", IF IsII(va) THEN TimedAccess_ne(va, vb) ELSE Vector_ne(va, vb))

Op_lt == Apply("lt", IF IsII(va) THEN TimedAccess_lt(va, vb) ELSE Vector_lt(va, vb))

Op_gt == Apply("gt", IF IsII(va) THEN TimedAccess_gt(va, vb) ELSE Vector_gt(va, vb))

Op_ge == Apply("ge", IF IsII(va) THEN TimedAccess_ge(va, vb) ELSE Vector_ge(va, vb))

Op_le == Apply("le", IF IsII(va) THEN TimedAccess_le(va, vb) ELSE Vector_le(va, vb))

Op_add == Apply("add", Vector_add(va, vb))

Op_sub == Apply("sub", Vector_sub(va, vb))

Op_distance ==
    Apply("distance", IF IsII(va) THEN IterationInstance_distance(va, vb)
                      ELSE Vector_distance(va, vb))

VecNext ==
    \/ Op_eq \/ Op_ne \/ Op_lt \/ Op_gt \/ Op_ge \/ Op_le
    \/ Op_add \/ Op_sub \/ Op_distance

SpecVector == VecInit /\ [][VecNext]_vars

---------------------------------------------------------------------------
(* Scope: built from an equation list, its groups read in any order *)

Init ==
    /\ exprs \in EqLists
    /\ reads = ScopeReads(<<>>, exprs, 1)
    /\ writes = ScopeWrites(<<>>, exprs, 1)
    /\ cache = NoCache
    /\ gen = 1
    /\ first = NoFirst
    /\ VecIdle
    /\ HaloIdle
    /\ ClusterIdle
    /\ TuneIdle
    /\ SymIdle

Read_d_flow ==
    /\ cache' = Get_d_flow(cache, reads, writes)
    /\ UNCHANGED <<exprs, reads, writes, gen, first>>
    /\ UNCHANGED vecVars
    /\ UNCHANGED haloVars
    /\ UNCHANGED clusterVars
    /\ UNCHANGED tuneVars
    /\ UNCHANGED symVars

Read_d_anti ==
    /\ cache' = Get_d_anti(cache, reads, writes)
    /\ UNCHANGED <<exprs, reads, writes, gen, first>>
    /\ UNCHANGED vecVars
    /\ UNCHANGED haloVars
    /\ UNCHANGED clusterVars
    /\ UNCHANGED tuneVars
    /\ UNCHANGED symVars

Read_d_output ==
    /\ cache' = Get_d_output(cache, reads, writes)
    /\ UNCHANGED <<exprs, reads, writes, gen, first>>
    /\ UNCHANGED vecVars
    /\ UNCHANGED haloVars
    /\ UNCHANGED clusterVars
    /\ UNCHANGED tuneVars
    /\ UNCHANGED symVars

Read_d_all ==
    /\ cache' = Get_d_all(cache, reads, writes)
    /\ UNCHANGED <<exprs, reads, writes, gen, first>>
    /\ UNCHANGED vecVars
    /\ UNCHANGED haloVars
    /\ UNCHANGED clusterVars
    /\ UNCHANGED tuneVars
    /\ UNCHANGED symVars

\* A second Scope is built from the same equation list; the groups of the
\* first one are read (d_all reads the other three) and kept for comparison.
Rebuild ==
    /\ gen = 1
    /\ first' = [reads |-> reads, writes |-> writes,
                 groups |-> Get_d_all(cache, reads, writes)]
    /\ gen' = 2
    /\ reads' = ScopeReads(<<>>, exprs, 1)
    /\ writes' = ScopeWrites(<<>>, exprs, 1)
    /\ cache' = NoCache
    /\ UNCHANGED exprs
    /\ UNCHANGED vecVars
    /\ UNCHANGED haloVars
    /\ UNCHANGED clusterVars
    /\ UNCHANGED tuneVars
    /\ UNCHANGED symVars

Next == Read_d_flow \/ Read_d_anti \/ Read_d_output \/ Read_d_all \/ Rebuild

Spec == Init /\ [][Next]_vars

---------------------------------------------------------------------------
(* HaloScheme: the constructor is called once on the inputs drawn *)

HaloInit ==
    /\ hexprs \in HaloEqLists
    /\ hgrid \in Grids
    /\ hfun \in Funs
    /\ hdspace \in DataSpaces(hexprs)
    /\ hdir \in Directions
    /\ \E st \in Steppings(hexprs) : hstep = st.step /\ hsub = st.subs
    /\ hout = NoScheme
    /\ hmask = Unset
    /\ VecIdle
    /\ ScopeIdle
    /\ ClusterIdle
    /\ TuneIdle
    /\ SymIdle

HaloScheme_init ==
    /\ hout.status = "none"
    /\ hout' = HaloScheme(hexprs, hgrid, hfun, hdir, hdspace, hstep, hsub)
    /\ UNCHANGED <<hexprs, hgrid, hfun, hdspace, hdir, hstep, hsub, hmask>>
    /\ UNCHANGED vecVars
    /\ UNCHANGED scopeVars
    /\ UNCHANGED clusterVars
    /\ UNCHANGED tuneVars
    /\ UNCHANGED symVars

\* HaloScheme.mask is read on a scheme that was built: computed on the first
\* read, the cached value afterwards
Read_mask ==
    /\ hout.status = "built"
    /\ hmask' = IF hmask.set THEN hmask ELSE Computed(mask(hout.mapper))
    /\ UNCHANGED <<hexprs, hgrid, hfun, hdspace, hdir, hout, hstep, hsub>>
    /\ UNCHANGED vecVars
    /\ UNCHANGED scopeVars
    /\ UNCHANGED clusterVars
    /\ UNCHANGED tuneVars
    /\ UNCHANGED symVars

HaloNext == HaloScheme_init \/ Read_mask

SpecHalo == HaloInit /\ [][HaloNext]_vars

---------------------------------------------------------------------------
(* Clusters: a ClusterGroup is built, then calls are made on it and on its *)
(* members                                                                  *)

ClusterInit ==
    /\ objs \in UNION {[1..n -> ClusterObjects] : n \in 1..MaxMembers}
    /\ groups = <<[n \in 1..Len(objs) |-> n]>>
    /\ kinds = <<"built">>
    /\ cres = NoClusterCall
    /\ ncalls = 0
    /\ VecIdle
    /\ ScopeIdle
    /\ HaloIdle
    /\ TuneIdle
    /\ SymIdle

Called(c) ==
    /\ ncalls < MaxCalls
    /\ ncalls' = ncalls + 1
    /\ cres' = c
    /\ UNCHANGED vecVars
    /\ UNCHANGED scopeVars
    /\ UNCHANGED haloVars
    /\ UNCHANGED tuneVars
    /\ UNCHANGED symVars

\* self.squash(other)
Squash ==
    \E s \in 1..Len(objs), o \in 1..Len(objs) :
        IF IsCluster(objs[s])
        THEN /\ Called(Call("squash", s, o, <<>>, "AttributeError", 0))
             /\ UNCHANGED <<objs, groups, kinds>>
        ELSE IF ~SameIspace(objs[s].ispace, objs[o].ispace)
        THEN /\ Called(Call("squash", s, o, <<>>, "AssertionError", 0))
             /\ UNCHANGED <<objs, groups, kinds>>
        ELSE /\ Called(Call("squash", s, o, <<>>, "none", 0))
             /\ objs' = [objs EXCEPT ![s].exprs.items =
                             Extended(objs[s].exprs.items, objs[o].exprs.items)]
             /\ UNCHANGED <<groups, kinds>>

\* self.exprs = val
SetExprs ==
    \E s \in 1..Len(objs), val \in {<<EqB>>, <<EqA, EqA>>} :
        IF SetterRaises(objs[s])
        THEN /\ Called(Call("set_exprs", s, 0, val, "AttributeError", 0))
             /\ UNCHANGED <<objs, groups, kinds>>
        ELSE /\ Called(Call("set_exprs", s, 0, val, "none", 0))
             /\ objs' = [objs EXCEPT ![s].exprs = [kind |-> "list", items |-> val]]
             /\ UNCHANGED <<groups, kinds>>

\* self.ispace = val
SetIspace ==
    \E s \in 1..Len(objs), val \in Ispaces :
        /\ Called(Call("set_ispace", s, 0, val, "AttributeError", 0))
        /\ UNCHANGED <<objs, groups, kinds>>

\* self.rebuild(exprs), on a Cluster
Cluster_rebuild ==
    \E s \in 1..Len(objs), val \in {<<EqB>>, <<LoweredEqA, EqB>>} :
        /\ IsCluster(objs[s])
        /\ Called(Call("rebuild", s, 0, val, "none", Len(objs) + 1))
        /\ objs' = Append(objs, Cluster([kind |-> "list", items |-> val], objs[s].ispace,
                                        objs[s].atomics, objs[s].guards))
        /\ UNCHANGED <<groups, kinds>>

\* g.unfreeze(), on the group made last
Unfreeze ==
    LET g == groups[Len(groups)]
    IN  /\ Called(Call("unfreeze", 0, 0, <<>>, "none", 0))
        /\ objs' = objs \o UnfreezeNew(objs, g)
        /\ groups' = Append(groups, UnfreezeMembers(objs, g))
        /\ kinds' = Append(kinds, "unfreeze")

\* g.finalize(), on the group made last
Finalize ==
    LET g == groups[Len(groups)]
    IN  /\ Called(Call("finalize", 0, 0, <<>>, "none", 0))
        /\ objs' = objs \o FinalizeNew(objs, g)
        /\ groups' = Append(groups, FinalizeMembers(objs, g))
        /\ kinds' = Append(kinds, "finalize")

ClusterNext ==
    \/ Squash
    \/ SetExprs
    \/ SetIspace
    \/ Cluster_rebuild
    \/ Unfreeze
    \/ Finalize

SpecCluster == ClusterInit /\ [][ClusterNext]_vars

---------------------------------------------------------------------------
(* autotune is called once on the inputs drawn *)

TuneInit ==
    /\ ain \in TuneInputs
    /\ aargs = Arguments(ain)
    /\ abufs = CallerBuffers
    /\ aout = NotTuned
    /\ VecIdle
    /\ ScopeIdle
    /\ HaloIdle
    /\ ClusterIdle
    /\ SymIdle

\* The positions of the candidates a call executes: each of them is timed
Executed(args, bufs, in) ==
    LET r == autotune(args, bufs, in, [i \in 1..Len(Blocksizes(in)) |-> 1]).runs
    IN  {r[n].pos : n \in 1..Len(r)}

Autotune ==
    /\ aout.status = "none"
    /\ \E el \in [Executed(aargs, abufs, ain) -> Elapsed] :
          LET r == autotune(aargs, abufs, ain, el)
          IN  /\ aout' = r
              /\ aargs' = r.args
              /\ abufs' = r.bufs
    /\ UNCHANGED ain
    /\ UNCHANGED vecVars
    /\ UNCHANGED scopeVars
    /\ UNCHANGED haloVars
    /\ UNCHANGED clusterVars
    /\ UNCHANGED symVars

TuneNext == Autotune

SpecTune == TuneInit /\ [][TuneNext]_vars

---------------------------------------------------------------------------
(* Symbol cache: Functions are created and dropped, the cache is cleared *)

SymInit ==
    /\ SymIdle
    /\ VecIdle
    /\ ScopeIdle
    /\ HaloIdle
    /\ ClusterIdle
    /\ TuneIdle

\* Function(name='u', grid=grid), bound to a variable or not
Function_new ==
    /\ Len(sheap) < MaxObjs
    /\ \E held, cached, cyclic \in BOOLEAN :
          sheap' = Released(Append(sheap, Object(held, cached, cyclic)))
    /\ symcache' = CachePut(symcache, Len(sheap) + 1)
    /\ sop' = "Function"
    /\ UNCHANGED smeas
    /\ UNCHANGED vecVars
    /\ UNCHANGED scopeVars
    /\ UNCHANGED haloVars
    /\ UNCHANGED clusterVars
    /\ UNCHANGED tuneVars

\* del u
Del ==
    /\ \E o \in Held(sheap) :
          sheap' = Released([sheap EXCEPT ![o].held = FALSE])
    /\ sop' = "del"
    /\ UNCHANGED <<symcache, smeas>>
    /\ UNCHANGED vecVars
    /\ UNCHANGED scopeVars
    /\ UNCHANGED haloVars
    /\ UNCHANGED clusterVars
    /\ UNCHANGED tuneVars

\* clear_cache(), and the size of the cache measured after it
Clear ==
    /\ LET r == clear_cache(sheap, symcache)
       IN  /\ sheap' = r.heap
           /\ symcache' = r.cache
           /\ smeas' = Append(IF Len(smeas) = 2 THEN Tail(smeas) ELSE smeas,
                              Measure(r.heap, r.cache))
    /\ sop' = "clear_cache"
    /\ UNCHANGED vecVars
    /\ UNCHANGED scopeVars
    /\ UNCHANGED haloVars
    /\ UNCHANGED clusterVars
    /\ UNCHANGED tuneVars

SymNext == Function_new \/ Del \/ Clear

SpecCache == SymInit /\ [][SymNext]_vars

---------------------------------------------------------------------------
(* Vocabulary of the properties, stated without the operators of the model *)

Concrete(v) == \A i \in 1..Len(v.items) : IsInt(v.items[i])

SameRank(a, b) == Len(a.items) = Len(b.items)

\* a precedes b lexicographically, for sequences of ints of equal length
LexLess(a, b) ==
    \E i \in 1..Len(a) :
        /\ a[i].k < b[i].k
        /\ \A j \in 1..(i - 1) : a[j].k = b[j].k

\* The ordering difference of two accesses: per dimension, a - b where the
\* dimension increases and b - a where it decreases
IterDiff(a, b) ==
    [i \in 1..Len(a.items) |->
        IF Reverse(a.findices[i]) THEN ESub(b.items[i], a.items[i])
        ELSE ESub(a.items[i], b.items[i])]

Incomparable(a, b) == \E i \in 1..Len(a.items) : ~IsInt(IterDiff(a, b)[i])

IterLess(a, b) ==
    /\ ~Incomparable(a, b)
    /\ \E i \in 1..Len(a.items) :
           /\ IterDiff(a, b)[i].k < 0
           /\ \A j \in 1..(i - 1) : IterDiff(a, b)[j].k = 0

IterEqual(a, b) == a.items = b.items

\* The accesses of the program, read off the equation list
ProgReads ==
    {TimedAccess(exprs[i].rhs[j], "R", i - 1) :
        <<i, j>> \in {p \in (1..Len(exprs)) \X (1..1) : p[2] <= Len(exprs[p[1]].rhs)}}

ProgWrites ==
    {TimedAccess(exprs[i].lhs, "W", i - 1) :
        i \in {n \in 1..Len(exprs) : exprs[n].lhs # NoIndexed}}

Pairs(g) == {<<g[i].source, g[i].sink>> : i \in 1..Len(g)}

NoDuplicates(g) == \A i, j \in 1..Len(g) : g[i] = g[j] => i = j

---------------------------------------------------------------------------
(* C4: for integer Vectors a, b of equal rank exactly one of a < b, a == b, *)
(* a > b is true, < and > being the lexicographic order of the ints, and    *)
(* a.distance(b) is the component-wise negation of b.distance(a).           *)

IntVectorPair ==
    /\ va.kind = "Vector" /\ vb.kind = "Vector"
    /\ SameRank(va, vb) /\ Concrete(va) /\ Concrete(vb)

ExactlyOne(p, q, r) == (p /\ ~q /\ ~r) \/ (~p /\ q /\ ~r) \/ (~p /\ ~q /\ r)

ThmC4 ==
    IntVectorPair =>
        /\ vop = "lt" => vres = RetB(LexLess(va.items, vb.items))
        /\ vop = "gt" => vres = RetB(LexLess(vb.items, va.items))
        /\ vop = "eq" => vres = RetB(va.items = vb.items)
        /\ vop \in {"lt", "eq", "gt"} =>
              /\ Vector_lt(va, vb).exc = "none"
              /\ Vector_eq(va, vb).exc = "none"
              /\ Vector_gt(va, vb).exc = "none"
              /\ ExactlyOne(Vector_lt(va, vb).b, Vector_eq(va, vb).b, Vector_gt(va, vb).b)
        /\ vop = "distance" =>
              /\ vres.exc = "none"
              /\ vres.v = [i \in 1..Len(va.items) |-> Num(0 - Vector_distance(vb, va).v[i].k)]

WitC4 ==
    /\ IntVectorPair
    /\ vop = "lt" /\ vres.b
    /\ Len(va.items) = 2
    /\ va.items[1] = vb.items[1]

---------------------------------------------------------------------------
(* C5: for two Vectors of equal rank, a < b and a > b raise TypeError       *)
(* whenever some component of their ordering difference is not a concrete  *)
(* integer, and return a boolean only when every component is concrete.    *)

ThmC5 ==
    /\ (/\ vop \in {"lt", "gt"}
        /\ va.kind = "Vector" /\ vb.kind = "Vector" /\ SameRank(va, vb))
       => (vres.exc = "TypeError"
              <=> \E i \in 1..Len(va.items) : ~IsInt(ESub(va.items[i], vb.items[i])))
    /\ (/\ vop \in {"lt", "gt"}
        /\ va.kind = "TimedAccess" /\ vb.kind = "TimedAccess"
        /\ va.findices = vb.findices)
       => (vres.exc = "TypeError" <=> Incomparable(va, vb))

\* the first component alone would decide, the second is symbolic
WitC5 ==
    /\ vop = "lt" /\ vres.exc = "TypeError"
    /\ va.kind = "Vector" /\ vb.kind = "Vector"
    /\ Len(va.items) = 2 /\ Len(vb.items) = 2
    /\ IsInt(va.items[1]) /\ IsInt(vb.items[1]) /\ va.items[1].k < vb.items[1].k
    /\ ~IsInt(ESub(va.items[2], vb.items[2]))

---------------------------------------------------------------------------
(* C6: every comparison, addition and subtraction of two Vectors of         *)
(* different rank, and every comparison or distance of two accesses with   *)
(* different findices, raises; a scalar operand is broadcast to the        *)
(* vector's rank before the operation.                                     *)

Broadcast(self, other) == Vector([i \in 1..Len(self.items) |-> other.items[1]])

VectorOp(op, a, b) ==
    CASE op = "eq" -> Vector_eq(a, b)
      [] op = "ne" -> Vector_ne(a, b)
      [] op = "lt" -> Vector_lt(a, b)
      [] op = "gt" -> Vector_gt(a, b)
      [] op = "ge" -> Vector_ge(a, b)
      [] op = "le" -> Vector_le(a, b)
      [] op = "add" -> Vector_add(a, b)
      [] op = "sub" -> Vector_sub(a, b)
      [] op = "distance" -> Vector_distance(a, b)

ThmC6 ==
    /\ (/\ vop \notin {"none", "idle"}
        /\ va.kind = "Vector" /\ vb.kind = "Vector" /\ ~SameRank(va, vb))
       => vres.exc = "TypeError"
    /\ (/\ vop \in {"eq", "ne", "lt", "gt", "ge", "le", "distance"}
        /\ va.kind = "TimedAccess" /\ vb.kind = "TimedAccess"
        /\ va.findices # vb.findices)
       => vres.exc = "TypeError"
    /\ (vop \notin {"none", "idle"} /\ vb.kind = "scalar")
       => vres = VectorOp(vop, va, Broadcast(va, vb))

WitC6 ==
    /\ vop = "add" /\ vres.exc = "TypeError"
    /\ va.kind = "Vector" /\ vb.kind = "Vector"
    /\ Len(va.items) = 2 /\ Len(vb.items) = 1

---------------------------------------------------------------------------
(* C1: d_flow holds a dependence w -> r, for a write w and a read r of the  *)
(* same data object, exactly when r < w in iteration space, or r equals w  *)
(* in iteration space and r's timestamp is >= w's, or the pair is          *)
(* incomparable; it holds no other dependence.                             *)

FlowCond(r, w) ==
    \/ Incomparable(r, w)
    \/ IterLess(r, w)
    \/ IterEqual(r, w) /\ r.timestamp >= w.timestamp

ThmC1 ==
    cache.d_flow.set =>
        /\ Pairs(cache.d_flow.val) =
              {p \in ProgWrites \X ProgReads :
                  p[1].function = p[2].function /\ FlowCond(p[2], p[1])}
        /\ NoDuplicates(cache.d_flow.val)

\* both a lexicographically decided and an incomparable pair
WitC1 ==
    /\ cache.d_flow.set
    /\ \E i, j \in 1..Len(cache.d_flow.val) :
          /\ IterLess(cache.d_flow.val[i].sink, cache.d_flow.val[i].source)
          /\ Incomparable(cache.d_flow.val[j].sink, cache.d_flow.val[j].source)

---------------------------------------------------------------------------
(* C2: d_anti holds a dependence r -> w, for a read r and a write w of the  *)
(* same data object, exactly when r > w in iteration space, or r equals w  *)
(* in iteration space and r's timestamp is < w's, or the pair is           *)
(* incomparable; it holds no other dependence.                             *)

AntiCond(r, w) ==
    \/ Incomparable(r, w)
    \/ IterLess(w, r)
    \/ IterEqual(r, w) /\ r.timestamp < w.timestamp

ThmC2 ==
    cache.d_anti.set =>
        /\ Pairs(cache.d_anti.val) =
              {p \in ProgReads \X ProgWrites :
                  p[1].function = p[2].function /\ AntiCond(p[1], p[2])}
        /\ NoDuplicates(cache.d_anti.val)

\* a pair ordered by the decreasing dimension and a pair ordered by timestamps
WitC2 ==
    /\ cache.d_anti.set
    /\ \E i, j \in 1..Len(cache.d_anti.val) :
          /\ IterLess(cache.d_anti.val[i].sink, cache.d_anti.val[i].source)
          /\ cache.d_anti.val[i].source.items[1] # cache.d_anti.val[i].sink.items[1]
          /\ IterEqual(cache.d_anti.val[j].source, cache.d_anti.val[j].sink)

---------------------------------------------------------------------------
(* C3: d_output holds a dependence w2 -> w1, for writes w1, w2 of the same  *)
(* data object, exactly when w2 > w1 in iteration space, or w2 equals w1   *)
(* in iteration space and w2's timestamp is > w1's, or the pair is         *)
(* incomparable; a write never depends on itself, and two distinct         *)
(* comparable writes yield exactly one output dependence between them.     *)

OutputCond(w2, w1) ==
    \/ Incomparable(w2, w1)
    \/ IterLess(w1, w2)
    \/ IterEqual(w2, w1) /\ w2.timestamp > w1.timestamp

ThmC3 ==
    cache.d_output.set =>
        /\ Pairs(cache.d_output.val) =
              {p \in ProgWrites \X ProgWrites :
                  p[1].function = p[2].function /\ OutputCond(p[1], p[2])}
        /\ NoDuplicates(cache.d_output.val)
        /\ \A w \in ProgWrites : <<w, w>> \notin Pairs(cache.d_output.val)
        /\ \A w1, w2 \in ProgWrites :
              (w1 # w2 /\ w1.function = w2.function /\ ~Incomparable(w1, w2)) =>
                  (<<w1, w2>> \in Pairs(cache.d_output.val)
                      <=> <<w2, w1>> \notin Pairs(cache.d_output.val))

\* two writes of the same element, in two equations
WitC3 ==
    /\ cache.d_output.set
    /\ \E i \in 1..Len(cache.d_output.val) :
          /\ IterEqual(cache.d_output.val[i].source, cache.d_output.val[i].sink)
          /\ cache.d_output.val[i].source.timestamp = 1
          /\ cache.d_output.val[i].sink.timestamp = 0

---------------------------------------------------------------------------
(* C7: for a write w and a read r of the same data object with concrete    *)
(* offsets exactly one of the flow dependence w -> r and the anti          *)
(* dependence r -> w is produced, and every member of d_output has a write *)
(* as source and as sink.                                                  *)

ThmC7 ==
    /\ (cache.d_flow.set /\ cache.d_anti.set) =>
          \A w \in ProgWrites, r \in ProgReads :
              (w.function = r.function /\ ~Incomparable(r, w)) =>
                  (<<w, r>> \in Pairs(cache.d_flow.val)
                      <=> <<r, w>> \notin Pairs(cache.d_anti.val))
    /\ cache.d_output.set =>
          \A i \in 1..Len(cache.d_output.val) :
              /\ cache.d_output.val[i].source.mode = "W"
              /\ cache.d_output.val[i].sink.mode = "W"

\* a read and a write of the same element in one equation, and an output dependence
WitC7 ==
    /\ cache.d_flow.set /\ cache.d_anti.set /\ cache.d_output.set
    /\ Len(cache.d_output.val) > 0
    /\ \E w \in ProgWrites, r \in ProgReads :
          /\ w.function = r.function /\ IterEqual(r, w) /\ r.timestamp = w.timestamp
          /\ <<w, r>> \in Pairs(cache.d_flow.val)

---------------------------------------------------------------------------
(* C8: a second Scope built from the same equation list has the same       *)
(* accesses and the same flow, anti, output and all groups, in the same    *)
(* order, as the first; and a group once read on a Scope stays the group   *)
(* later reads return.                                                     *)

GroupNames == {"d_flow", "d_anti", "d_output", "d_all"}

SameAsFirst ==
    gen = 2 =>
        /\ reads = first.reads /\ writes = first.writes
        /\ \A g \in GroupNames : cache[g].set => cache[g].val = first.groups[g].val

CacheKept ==
    gen' = gen => \A g \in GroupNames : cache[g].set => cache'[g] = cache[g]

---------------------------------------------------------------------------
(* Halo amounts and fmapper entries: C9, C10 *)

\* The reads of u in the equations, each with the increment flag of its equation
HaloReads ==
    {[ix |-> hexprs[i].rhs[1], inc |-> hexprs[i].inc] :
        i \in {n \in 1..Len(hexprs) : Len(hexprs[n].rhs) = 1}}

\* The read indexes x directly: its x index is x plus an int
XDirect(r) ==
    LET e == r.ix.indices[2]
    IN  e.c["x"] = 1 /\ \A q \in Syms \ {"x"} : e.c[q] = 0

XDistributed == hgrid.present /\ "x" \in hgrid.distributed

\* x is STENCIL-labelled for u: decomposed and read directly
XStencil == XDistributed /\ HaloReads # {} /\ \A r \in HaloReads : XDirect(r)

\* x is FULL-labelled for u: decomposed and read indirectly, outside increments
XFull == XDistributed /\ HaloReads # {} /\ \A r \in HaloReads : ~XDirect(r) /\ ~r.inc

\* every dimension of u is NONE-labelled: a grid that does not decompose x
AllNone == hgrid.present /\ ~XDistributed /\ HaloReads # {} /\ \A r \in HaloReads : XDirect(r)

StencilLeft == hfun.offset_domain["x"].left - hdspace["x"][1]

StencilRight == hdspace["x"][2] - hfun.offset_domain["x"].right

FullLeft == hfun.extent_halo["x"].left

FullRight == hfun.extent_halo["x"].right

\* The records for amounts l and r: one per side whose amount is positive
SidesFor(l, r) ==
    {[dim |-> "x", side |-> "LEFT", amount |-> a] : a \in {l} \cap {n \in Int : n > 0}}
        \cup {[dim |-> "x", side |-> "RIGHT", amount |-> a] : a \in {r} \cap {n \in Int : n > 0}}

\* The entries of fmapper for u, and the Halo records in them
EntriesOfU == {n \in 1..Len(hout.mapper) : hout.mapper[n].key = "u"}

RecordsOfU ==
    {hout.mapper[n].val.halos[k] :
        <<n, k>> \in {q \in EntriesOfU \X (1..2) : q[2] <= Len(hout.mapper[q[1]].val.halos)}}

\* C9: in a scheme that was built, the Halo records of u along a
\* STENCIL-labelled x are exactly: LEFT with amount left domain offset minus
\* lower data-space bound, RIGHT with amount upper bound minus right domain
\* offset, each present only when its amount is > 0; along a FULL-labelled x
\* they are the allocated left and right halo, each present only when > 0.
ThmC9 ==
    hout.status = "built" =>
        /\ XStencil => RecordsOfU = SidesFor(StencilLeft, StencilRight)
        /\ XFull => RecordsOfU = SidesFor(FullLeft, FullRight)
        /\ \A n \in EntriesOfU : Len(hout.mapper[n].val.halos) <= 2

\* A scheme built along a STENCIL-labelled x whose left amount is recorded
\* and whose right amount, not being positive, is not
WitC9 ==
    /\ hout.status = "built"
    /\ XStencil
    /\ StencilLeft > 0
    /\ StencilRight <= 0
    /\ \E h \in RecordsOfU : h.side = "LEFT" /\ h.amount = StencilLeft

\* The Halo records hs_comp_halos is due to compute for u
DueRecords ==
    IF XStencil THEN SidesFor(StencilLeft, StencilRight)
    ELSE IF XFull THEN SidesFor(FullLeft, FullRight)
    ELSE {}

\* C10: in a scheme that was built, fmapper has an entry for u iff at least
\* one Halo record was computed for it; every entry has a non-empty halos
\* tuple with amounts > 0 only; and u has no entry when all its dimensions
\* are labelled NONE.
ThmC10 ==
    hout.status = "built" =>
        /\ EntriesOfU # {} <=> DueRecords # {}
        /\ Cardinality(EntriesOfU) <= 1
        /\ \A n \in 1..Len(hout.mapper) :
              /\ Len(hout.mapper[n].val.halos) > 0
              /\ \A k \in 1..Len(hout.mapper[n].val.halos) :
                    hout.mapper[n].val.halos[k].amount > 0
        /\ AllNone => EntriesOfU = {}

\* A scheme was built for a u whose dimensions are all labelled NONE, and
\* fmapper has no entry for it
WitC10 ==
    /\ hout.status = "built"
    /\ AllNone
    /\ EntriesOfU = {}

---------------------------------------------------------------------------
(* Unbuildable schemes and the one-equation scenario: C11, C12 *)

\* The equations that write u
HaloWriters == {n \in 1..Len(hexprs) : hexprs[n].lhs # NoIndexed}

\* Some dependence involves u: a write and a read of u are always ordered or
\* incomparable, and so are the writes of two equations
SomeDependence ==
    \/ HaloWriters # {} /\ HaloReads # {}
    \/ Cardinality(HaloWriters) >= 2

\* u has no grid and some dependence involves it
NoGridCase == ~hgrid.present /\ SomeDependence

\* The (source, sink) pairs of the dependences among the equations
HaloDependences ==
    Pairs(Get_d_all(NoCache, ScopeReads(<<>>, hexprs, 1),
                    ScopeWrites(<<>>, hexprs, 1)).d_all.val)

\* Every index of the access is its own dimension plus an int
DirectAccess(a) ==
    \A n \in 1..Len(a.items) :
        /\ a.items[n].c[a.findices[n]] = 1
        /\ \A q \in Syms \ {a.findices[n]} : a.items[n].c[q] = 0

\* For two direct accesses of u: source minus sink is not positive along t
\* and is positive along x, so x is the causing dimension
CausedByX(a, b) ==
    /\ a.items[1].k - b.items[1].k <= 0
    /\ a.items[2].k - b.items[2].k > 0

\* Some regular dependence is caused by x, and x is distributed
DistributedCauseCase ==
    /\ XDistributed
    /\ \E p \in HaloDependences :
           DirectAccess(p[1]) /\ DirectAccess(p[2]) /\ CausedByX(p[1], p[2])

\* Two reads of u collect different labels along x: STENCIL against FULL or
\* UNSUPPORTED, UNSUPPORTED against FULL, or NONE against UNSUPPORTED
ConflictCase ==
    /\ hgrid.present
    /\ \E r1, r2 \in HaloReads :
          \/ XDistributed /\ XDirect(r1) /\ ~XDirect(r2)
          \/ XDistributed /\ ~XDirect(r1) /\ ~XDirect(r2) /\ r1.inc /\ ~r2.inc
          \/ ~XDistributed /\ XDirect(r1) /\ ~XDirect(r2) /\ r2.inc

C12Equations ==
    <<[lhs |-> [function |-> "u", indices |-> <<Sym("t", 1), Sym("x", 0)>>],
       rhs |-> <<[function |-> "u", indices |-> <<Sym("t", 0), Sym("x", 0)>>]>>,
       inc |-> FALSE]>>

C12Scenario ==
    /\ hout.status # "none"
    /\ hexprs = C12Equations
    /\ XDistributed
    /\ StencilLeft = 1
    /\ StencilRight = 1
    /\ hdir = "Forward"
    /\ hdspace["t"] = <<0, 1>>

\* One entry, for u, with the records (x, left, 1) and (x, right, 1)
C12Halos ==
    /\ hout.status = "built"
    /\ Len(hout.mapper) = 1
    /\ hout.mapper[1].key = "u"
    /\ hout.mapper[1].val.halos = <<[dim |-> "x", side |-> "LEFT", amount |-> 1],
                                    [dim |-> "x", side |-> "RIGHT", amount |-> 1]>>

\* loc_indices is {t: t}
C12AtT ==
    hout.mapper[1].val.loc_indices =
        <<[key |-> "t", val |-> [sub |-> "none", index |-> Sym("t", 0)]]>>

\* loc_indices is {t: t0}, t0 the modulo sub-iterator whose origin is t
C12AtT0 ==
    hout.mapper[1].val.loc_indices =
        <<[key |-> "t", val |-> [sub |-> "t0", index |-> Sym("t", 0)]]>>

---------------------------------------------------------------------------
(* Clusters: C13 .. C17 *)

\* The step is a call of op
Calls(op) == ncalls' # ncalls /\ cres'.op = op

\* The equations of an object, as the sequence of their sides (lhs, rhs)
SidesOf(o) == [n \in 1..Len(o.exprs.items) |-> o.exprs.items[n].sides]

NoRepeat(q) == \A i, j \in 1..Len(q) : q[i] = q[j] => i = j

\* C13: a call self.squash(other) with self.ispace different from
\* other.ispace raises, and leaves the equation lists of self and of other
\* as they were.
SquashFails ==
    (Calls("squash") /\ objs[cres'.self].ispace # objs[cres'.other].ispace) =>
        /\ cres'.exc # "none"
        /\ objs'[cres'.self].exprs = objs[cres'.self].exprs
        /\ objs'[cres'.other].exprs = objs[cres'.other].exprs

ThmC13 == [][SquashFails]_vars

\* squash was called on a PartialCluster with another iteration space, and
\* raised
WitC13 ==
    /\ cres.op = "squash"
    /\ cres.exc = "AssertionError"
    /\ objs[cres.self].cls = "PartialCluster"
    /\ objs[cres.self].ispace # objs[cres.other].ispace

\* C14: a call self.squash(other) that succeeds on a list without
\* duplicates leaves self's list equal to the previous list followed, in
\* order, by the equations of other that were not in it, and without
\* duplicates; this at every squash of a sequence of calls.
SquashDedups ==
    (Calls("squash") /\ cres'.exc = "none" /\ NoRepeat(objs[cres'.self].exprs.items)) =>
        LET old   == objs[cres'.self].exprs.items
            other == objs[cres'.other].exprs.items
            fresh == SelectSeq(other, LAMBDA e : \A n \in 1..Len(old) : old[n] # e)
        IN  /\ objs'[cres'.self].exprs.items = old \o fresh
            /\ NoRepeat(objs'[cres'.self].exprs.items)

OrigC14 == [][SquashDedups]_vars

\* C15: no step changes a Cluster; assigning exprs or ispace to a Cluster
\* and calling squash on it raise; rebuild returns a new Cluster with the
\* sides of the given equations, in order, and the iteration space, atomics
\* and guards of the Cluster it was called on.
ClusterFrozen ==
    /\ \A i \in 1..Len(objs) : IsCluster(objs[i]) => objs'[i] = objs[i]
    /\ \A op \in {"set_exprs", "set_ispace", "squash"} :
          (Calls(op) /\ objs[cres'.self].cls = "Cluster") => cres'.exc = "AttributeError"
    /\ Calls("rebuild") =>
          /\ cres'.ret = Len(objs) + 1
          /\ Len(objs') = Len(objs) + 1
          /\ objs'[cres'.ret].cls = "Cluster"
          /\ SidesOf(objs'[cres'.ret]) = [n \in 1..Len(cres'.arg) |-> cres'.arg[n].sides]
          /\ objs'[cres'.ret].ispace = objs[cres'.self].ispace
          /\ objs'[cres'.ret].atomics = objs[cres'.self].atomics
          /\ objs'[cres'.ret].guards = objs[cres'.self].guards

ThmC15 == [][ClusterFrozen]_vars

\* After an earlier call, assigning exprs to a Cluster has raised
WitC15 ==
    /\ ncalls >= 2
    /\ cres.op = "set_exprs"
    /\ cres.exc = "AttributeError"
    /\ objs[cres.self].cls = "Cluster"

\* The members of a group
MembersOf(g) == {g[n] : n \in 1..Len(g)}

\* C16: unfreeze and finalize append a new group and change no object and
\* no group that existed; and when a later squash or exprs assignment
\* succeeds on a member of a returned group, the equations of every member
\* of the group it was returned for stay as they were.
TransitionIsPure ==
    /\ (Calls("unfreeze") \/ Calls("finalize")) =>
          /\ Len(groups') = Len(groups) + 1
          /\ \A k \in 1..Len(groups) : groups'[k] = groups[k]
          /\ \A i \in 1..Len(objs) : objs'[i] = objs[i]
    /\ ((Calls("squash") \/ Calls("set_exprs")) /\ cres'.exc = "none") =>
          \A k \in 1..(Len(groups) - 1) :
              cres'.self \in MembersOf(groups[k + 1]) =>
                  \A m \in MembersOf(groups[k]) : objs'[m].exprs = objs[m].exprs

OrigC16 == [][TransitionIsPure]_vars

\* Two objects hold the same equations (as sides, in order), iteration
\* space, atomics and guards
SameContent(a, b) ==
    /\ SidesOf(a) = SidesOf(b)
    /\ a.ispace = b.ispace
    /\ a.atomics.elems = b.atomics.elems
    /\ a.guards.items = b.guards.items

\* Group h, in heap hb, has the members of group g, in heap ga, one for one
SameGroup(hb, h, ga, g) ==
    /\ Len(h) = Len(g)
    /\ \A n \in 1..Len(g) : SameContent(hb[h[n]], ga[g[n]])

\* finalize gives Clusters only, unfreeze gives no Cluster, and both keep
\* the members' number, order and content
TransitionKeeps ==
    /\ Calls("finalize") =>
          /\ SameGroup(objs', groups'[Len(groups')], objs, groups[Len(groups)])
          /\ \A i \in MembersOf(groups'[Len(groups')]) : objs'[i].cls = "Cluster"
    /\ Calls("unfreeze") =>
          /\ SameGroup(objs', groups'[Len(groups')], objs, groups[Len(groups)])
          /\ \A i \in MembersOf(groups'[Len(groups')]) : objs'[i].cls # "Cluster"

\* finalize(unfreeze(g)) and unfreeze(finalize(g)), with no call in between
RoundTrip ==
    (kinds = <<"built", "unfreeze", "finalize">> \/ kinds = <<"built", "finalize", "unfreeze">>)
        /\ ncalls = 2

\* C17: finalize returns a group of Clusters only and unfreeze a group
\* without any Cluster; both keep the number and order of the members and
\* each member's equations (their sides, in order), iteration space, atomics
\* and guards; so do finalize(unfreeze(g)) and unfreeze(finalize(g)).
ThmC17 ==
    /\ [][TransitionKeeps]_vars
    /\ [](RoundTrip => SameGroup(objs, groups[3], objs, groups[1]))

\* finalize(unfreeze(g)) was computed for a group of a Cluster with guards
\* and a PartialCluster
WitC17 ==
    /\ kinds = <<"built", "unfreeze", "finalize">>
    /\ ncalls = 2
    /\ Len(groups[1]) = 2
    /\ objs[1].cls = "Cluster"
    /\ objs[1].guards.items # {}
    /\ objs[2].cls = "PartialCluster"

---------------------------------------------------------------------------
(* autotune: C18 .. C20 *)

Returned == aout.status = "returned"

\* What a mapping binds to a key
Bound(args, k) == args[CHOOSE n \in 1..Len(args) : args[n].key = k].val

TrialRuns == {aout.runs[n] : n \in 1..Len(aout.runs)}

\* The buffers the caller passed: those its arguments bound before the call
CallerIds == {Bound(Arguments(ain), k) : k \in {"u", "v"}}

\* C18: every trial execution receives, for each argument named in the
\* outputs of the operator, a buffer that is not one of the caller's; the
\* caller's mapping is not modified by autotune; after autotune returns the
\* caller's buffers hold the values they held before the call, whichever
\* candidate wins and also when tuning fails.
ThmC18 ==
    Returned =>
        /\ \A r \in TrialRuns : \A k \in output : Bound(r.args, k) \notin CallerIds
        /\ aargs = Arguments(ain)
        /\ \A i \in CallerIds : abufs[i] = CallerBuffers[i]

\* Two trials have run on a clone of u, which they have written twice, and
\* a candidate has won
WitC18 ==
    /\ Returned
    /\ ~aout.same
    /\ Len(aout.runs) = 2
    /\ \E i \in 1..Len(abufs) :
          /\ i \notin CallerIds
          /\ abufs[i] = CallerBuffers[Bound(Arguments(ain), "u")] + 2
          /\ \A r \in TrialRuns : Bound(r.args, "u") = i

\* The block sizes of the candidate bs fit the extents of their dimensions
FitsExtents(bs) == \A k \in 1..Len(ain.tunable) : bs[k] <= ain.ext[ain.tunable[k]]

\* The bytes the stack-allocated temporaries take with the block sizes bs
\* substituted: none without such temporaries, else the elements of one
\* block times the size of an element
Footprint(bs) ==
    IF ain.stack = "none" THEN 0
    ELSE IF Len(bs) = 1 THEN bs[1] * itemsize
    ELSE bs[1] * bs[2] * itemsize

\* The footprint is known and is at most the configured ceiling
\* options['at_stack_limit'], a quarter of RLIMIT_STACK
WithinStack(bs) == ain.stack # "symbolic" /\ Footprint(bs) * 4 <= ain.rlimit

Legal(bs) == FitsExtents(bs) /\ WithinStack(bs)

\* The candidate list the call went through: its local blocksizes
CandidateList == aout.cands

NoneLegal == ain.nseq <= 1 /\ \A i \in 1..Len(CandidateList) : ~Legal(CandidateList[i])

\* C19: when the loop nest has more than one sequential dimension, autotune
\* returns the caller's arguments themselves, unmodified, and the operator
\* is never executed; when no candidate is legal, autotune returns the
\* caller's arguments themselves, unmodified; in both cases it returns
\* rather than raises.
ThmC19 ==
    /\ aout.status \in {"none", "returned"}
    /\ Returned /\ (ain.nseq > 1 \/ NoneLegal) =>
           /\ aout.same
           /\ aout.ret = Arguments(ain)
           /\ aargs = Arguments(ain)
    /\ Returned /\ ain.nseq > 1 => Len(aout.runs) = 0

\* The call has gone through all the candidates of a nest with one
\* sequential dimension and none was legal
WitC19 ==
    /\ Returned
    /\ ain.nseq = 1
    /\ NoneLegal
    /\ Len(CandidateList) > Len(at_blocksize)
    /\ aout.same

\* The block sizes a trial was executed with
ExecutedWith(r) == [k \in 1..Len(ain.tunable) |-> Bound(r.args, ain.tunable[k])]

\* C20: the operator is executed only with block sizes that are at most the
\* extents of their dimensions and whose stack footprint is at most the
\* stack-size ceiling; each legal entry of the candidate list is executed
\* exactly once, with its block sizes; an entry that is rejected is never
\* executed.
ThmC20 ==
    Returned /\ ain.nseq <= 1 =>
        /\ \A r \in TrialRuns : Legal(ExecutedWith(r))
        /\ \A i \in 1..Len(CandidateList) :
              IF Legal(CandidateList[i])
              THEN Cardinality({n \in 1..Len(aout.runs) :
                      /\ aout.runs[n].pos = i
                      /\ ExecutedWith(aout.runs[n]) = CandidateList[i]}) = 1
              ELSE \A r \in TrialRuns : r.pos # i
        /\ \A r \in TrialRuns : r.pos \in 1..Len(CandidateList)
        /\ Len(aout.runs) = Cardinality({i \in 1..Len(CandidateList) : Legal(CandidateList[i])})

\* A call where one candidate was executed, one that fits the extents was
\* rejected for its stack footprint, and one was rejected for its extent
WitC20 ==
    /\ Returned
    /\ Len(aout.runs) > 0
    /\ \E i \in 1..Len(CandidateList) :
          FitsExtents(CandidateList[i]) /\ ain.stack = "blocks" /\ ~WithinStack(CandidateList[i])
    /\ \E i \in 1..Len(CandidateList) : ~FitsExtents(CandidateList[i])

---------------------------------------------------------------------------
(* autotune, the tuned arguments: C21 *)

\* The keys of a mapping, in order
KeysOf(args) == [n \in 1..Len(args) |-> args[n].key]

\* The time recorded for the block sizes bs: that of the last trial run
\* with them
Recorded(bs) ==
    aout.runs[CHOOSE n \in 1..Len(aout.runs) :
                  /\ aout.runs[n].bs = bs
                  /\ \A m \in (n + 1)..Len(aout.runs) : aout.runs[m].bs # bs].elapsed

\* The block sizes in the returned arguments
Winner == [k \in 1..Len(ain.tunable) |-> Bound(aout.ret, ain.tunable[k])]

\* C21: when at least one candidate is legal, the returned arguments have
\* the keys of the original ones; the tunable entries hold the block sizes
\* of one executed candidate whose recorded time is least among the
\* executed candidates; every other entry but the profiler struct is the
\* original one, the time-step counts and the caller's output buffer
\* included.
ThmC21 ==
    Returned /\ ain.nseq <= 1 /\ ~NoneLegal =>
        /\ KeysOf(aout.ret) = KeysOf(Arguments(ain))
        /\ \E r \in TrialRuns : r.bs = Winner /\ ExecutedWith(r) = Winner
        /\ \A r \in TrialRuns : Recorded(Winner) <= Recorded(r.bs)
        /\ \A k \in {"u", "v", "t_size", "time_size"} :
               Bound(aout.ret, k) = Bound(Arguments(ain), k)

\* A stepping nest was tuned on a shrunk number of time steps, the first
\* candidate run was slower than a later one, which has won
WitC21 ==
    /\ Returned
    /\ ain.nseq = 1 /\ ain.stepping
    /\ Len(aout.runs) >= 2
    /\ \A r \in TrialRuns :
          /\ Bound(r.args, "t_size") # Bound(Arguments(ain), "t_size")
          /\ Bound(r.args, "time_size") # Bound(Arguments(ain), "time_size")
    /\ aout.runs[1].elapsed > Recorded(Winner)
    /\ Winner # aout.runs[1].bs

---------------------------------------------------------------------------
(* autotune, the time steps and the stack limit: C29, C30 *)

\* The count of time steps left from the start of the sequential dimension
\* up to at_squeezer
ShrunkCount == at_squeezer - ain.start

\* C29: with exactly one sequential dimension, the number of time steps
\* bound to it for the trial runs is strictly positive for every start
\* value: a negative shrunk count c is replaced by at_squeezer - c + 1, any
\* other shrunk count is kept, and is positive.
OrigC29 ==
    Returned /\ ain.nseq = 1 =>
        \A r \in TrialRuns :
            /\ Bound(r.args, "t_size") > 0
            /\ Bound(r.args, "t_size") =
                   IF ShrunkCount < 0 THEN at_squeezer - ShrunkCount + 1 ELSE ShrunkCount

\* C30: a candidate whose block sizes fit the extents, in an operator
\* without stack-allocated temporaries, is never rejected by the stack
\* check, whatever RLIMIT_STACK is, unlimited included: the candidate of the
\* entire iteration space is executed and autotune returns tuned arguments.
OrigC30 ==
    Returned /\ ain.nseq <= 1 /\ ain.stack = "none" =>
        /\ \A i \in 1..Len(CandidateList) :
               FitsExtents(CandidateList[i]) => \E r \in TrialRuns : r.pos = i
        /\ \E r \in TrialRuns : r.bs = [k \in 1..Len(ain.tunable) |-> ain.ext[ain.tunable[k]]]
        /\ ~aout.same

---------------------------------------------------------------------------
(* Dependences, their distance, cause and kind: C24 .. C26 *)

\* The dependences of the Scope, once d_all has been read
Dependences == IF cache.d_all.set THEN cache.d_all.val ELSE <<>>

\* The differences of the index entries, taken one way and the other
SourceMinusSink(dep) ==
    [i \in 1..Len(dep.source.items) |-> ESub(dep.source.items[i], dep.sink.items[i])]

SinkMinusSource(dep) ==
    [i \in 1..Len(dep.source.items) |-> ESub(dep.sink.items[i], dep.source.items[i])]

\* C24 as stated: the distance of Dependence(source, sink) is sink minus
\* source along a dimension that increases and the opposite along one that
\* decreases.
OrigC24 ==
    \A n \in 1..Len(Dependences) :
        LET dep == Dependences[n]
        IN  \A i \in 1..Len(dep.source.items) :
                Dependence_distance(dep)[i] =
                    IF Reverse(dep.source.findices[i]) THEN SourceMinusSink(dep)[i]
                    ELSE SinkMinusSource(dep)[i]

\* C24, amended: the distance of Dependence(source, sink) is source minus
\* sink, component by component, whatever the direction of the dimensions.
ThmC24 ==
    \A n \in 1..Len(Dependences) :
        Dependence_distance(Dependences[n]) = SourceMinusSink(Dependences[n])

\* a dependence at a non-zero distance along the decreasing dimension s, and
\* one at a non-zero distance along the increasing dimension t
WitC24 ==
    /\ \E n \in 1..Len(Dependences) :
          /\ Dependences[n].source.function = "v"
          /\ Dependence_distance(Dependences[n])[1] # Num(0)
    /\ \E n \in 1..Len(Dependences) :
          /\ Dependences[n].source.function = "u"
          /\ Dependence_distance(Dependences[n])[1] # Num(0)

\* The distance along the n-th dimension is provably positive, or indeterminate
Positive(e) == IsInt(e) /\ e.k > 0

Indeterminate(e) == ~IsInt(e)

\* C25: cause is the first dimension, in declared order, whose distance is
\* provably positive or indeterminate, the zero and negative distances before
\* it being skipped, and None when no dimension qualifies.
ThmC25 ==
    \A n \in 1..Len(Dependences) :
        LET dep == Dependences[n]
            dist == Dependence_distance(dep)
            qualifies(i) == Positive(dist[i]) \/ Indeterminate(dist[i])
        IN  /\ (\A i \in 1..Len(dist) : ~qualifies(i)) <=> Dependence_cause(dep) = "None"
            /\ \A i \in 1..Len(dist) :
                   (qualifies(i) /\ \A j \in 1..(i - 1) : ~qualifies(j))
                       => Dependence_cause(dep) = dep.source.findices[i]

\* a negative distance skipped before an indeterminate one, a zero distance
\* skipped before a positive one, and a dependence without a cause
WitC25 ==
    /\ \E n \in 1..Len(Dependences) :
          LET dist == Dependence_distance(Dependences[n])
          IN  /\ IsInt(dist[1]) /\ dist[1].k < 0 /\ Indeterminate(dist[2])
              /\ Dependence_cause(Dependences[n]) = "x"
    /\ \E n \in 1..Len(Dependences) :
          LET dist == Dependence_distance(Dependences[n])
          IN  dist[1] = Num(0) /\ Positive(dist[2]) /\ Dependence_cause(Dependences[n]) = "x"
    /\ \E n \in 1..Len(Dependences) : Dependence_cause(Dependences[n]) = "None"

\* Both accesses of the dependence are irregular along its cause
BothIrregularAtCause(dep) ==
    /\ Dependence_cause(dep) # "None"
    /\ irregular(dep.source, Dependence_cause(dep))
    /\ irregular(dep.sink, Dependence_cause(dep))

\* g is split into a and b: every member of g is in exactly one of them, in
\* the order of g
Partitions(g, a, b) ==
    /\ Len(a) + Len(b) = Len(g)
    /\ \A n \in 1..Len(g) :
          (\E i \in 1..Len(a) : a[i] = g[n]) # (\E i \in 1..Len(b) : b[i] = g[n])

\* C26: a dependence is indirect exactly when source and sink are both
\* irregular along its cause, is_direct is the negation of is_indirect, and
\* direct() and indirect() partition the group.
ThmC26 ==
    /\ \A n \in 1..Len(Dependences) :
          /\ is_indirect(Dependences[n]) <=> BothIrregularAtCause(Dependences[n])
          /\ is_direct(Dependences[n]) <=> ~is_indirect(Dependences[n])
    /\ Partitions(Dependences, direct(Dependences), indirect(Dependences))

\* an indirect dependence, a direct one with one irregular access along its
\* cause, and a direct one between irregular accesses that has no cause
WitC26 ==
    /\ \E n \in 1..Len(Dependences) : is_indirect(Dependences[n])
    /\ \E n \in 1..Len(Dependences) :
          /\ is_direct(Dependences[n])
          /\ Dependence_cause(Dependences[n]) = "x"
          /\ irregular(Dependences[n].source, "x") # irregular(Dependences[n].sink, "x")
    /\ \E n \in 1..Len(Dependences) :
          /\ is_direct(Dependences[n])
          /\ Dependence_cause(Dependences[n]) = "None"
          /\ irregular(Dependences[n].source, "x") /\ irregular(Dependences[n].sink, "x")

---------------------------------------------------------------------------
(* HaloScheme.mask: C22 *)

\* The values mask holds for data object f under the key (d, side)
MaskValues(f, d, side) ==
    {e.val : e \in {Get(hmask.val, f)[k] :
                        k \in {i \in 1..Len(Get(hmask.val, f)) :
                                   Get(hmask.val, f)[i].key = <<d, side>>}}}

\* The number of entries mask holds for data object f under the key (d, side)
MaskCount(f, d, side) ==
    Cardinality({i \in 1..Len(Get(hmask.val, f)) : Get(hmask.val, f)[i].key = <<d, side>>})

\* C22: for every data object of fmapper and every (dimension, side) of its
\* dimensions, mask holds no entry when the dimension is a key of loc_indices
\* and otherwise exactly one boolean, true iff halos has a record for that
\* dimension and side.
ThmC22 ==
    hmask.set =>
        \A n \in 1..Len(hout.mapper) :
            LET f == hout.mapper[n].key
                v == hout.mapper[n].val
            IN  \A i \in 1..Len(Findices(f)) : \A side \in {"LEFT", "RIGHT"} :
                    LET d == Findices(f)[i]
                    IN  IF \E k \in 1..Len(v.loc_indices) : v.loc_indices[k].key = d
                        THEN MaskCount(f, d, side) = 0
                        ELSE /\ MaskCount(f, d, side) = 1
                             /\ MaskValues(f, d, side) =
                                    {\E k \in 1..Len(v.halos) :
                                         v.halos[k].dim = d /\ v.halos[k].side = side}

\* mask was read on a scheme whose entry for u has t among its loc_indices
\* and a record for the left side of x only
WitC22 ==
    /\ hmask.set
    /\ \E n \in 1..Len(hout.mapper) :
          /\ hout.mapper[n].key = "u"
          /\ \E k \in 1..Len(hout.mapper[n].val.loc_indices) :
                 hout.mapper[n].val.loc_indices[k].key = "t"
    /\ MaskCount("u", "t", "LEFT") = 0
    /\ MaskValues("u", "x", "LEFT") = {TRUE}
    /\ MaskValues("u", "x", "RIGHT") = {FALSE}

---------------------------------------------------------------------------
(* hs_classify: C27 *)

\* The reads of data object f in the equations, in program order
ReadsOf(f) == Get(ScopeReads(<<>>, hexprs, 1), f)

\* The labels collected per data object and dimension, and the mapper
\* hs_classify returns when they agree
CollectedLabels == LabelLists(ScopeReads(<<>>, hexprs, 1), hgrid, hexprs)

Classification == hs_classify(CollectedLabels)

\* The index of read r along d is an int or d plus an int
AffineAlong(r, d) ==
    LET e == r.items[PosOf(d, r.findices)]
    IN  IsInt(e) \/ e = Sym(d, e.k)

\* The label due to read r along d; "-" for no label
DueLabel(r, d) ==
    LET distributed == d \in hgrid.distributed
        increment == hexprs[r.timestamp + 1].inc
    IN  IF AffineAlong(r, d) /\ distributed THEN "STENCIL"
        ELSE IF AffineAlong(r, d) /\ ~distributed THEN "NONE"
        ELSE IF increment THEN "UNSUPPORTED"
        ELSE IF distributed THEN "FULL"
        ELSE "-"

\* The labels due to the reads of f along d, in program order
DueLabels(f, d) ==
    SelectSeq([n \in 1..Len(ReadsOf(f)) |-> DueLabel(ReadsOf(f)[n], d)],
              LAMBDA l : l # "-")

\* C27: once the constructor has run on a data object with a grid, the labels
\* collected for (f, d) are, read by read: STENCIL for
\* affine and distributed, NONE for affine and not distributed, UNSUPPORTED
\* for not affine in an increment, FULL for irregular and distributed outside
\* increments, none otherwise; and unless the labels of some (f, d) disagree
\* the result maps every (f, d) that received labels, and no other, to the
\* label its reads agree on.  A data object without grid is not classified.
ThmC27 ==
    hout.status # "none" =>
        /\ ~hgrid.present => Classification = <<>>
        /\ hgrid.present =>
              \A f \in Functions : \A i \in 1..Len(Findices(f)) :
                  LET d == Findices(f)[i]
                  IN  /\ Get(Get(CollectedLabels, f), d) = DueLabels(f, d)
                      /\ hout.status = "built" =>
                            /\ Get(Get(Classification, f), d) =
                                   IF DueLabels(f, d) = <<>> THEN <<>>
                                   ELSE DueLabels(f, d)[1]
                            /\ \A n \in 1..Len(DueLabels(f, d)) :
                                   DueLabels(f, d)[n] = DueLabels(f, d)[1]

\* a scheme built from two reads of u that agree on FULL along x and on NONE
\* along t
WitC27 ==
    /\ hout.status = "built"
    /\ Len(ReadsOf("u")) = 2
    /\ Get(Get(Classification, "u"), "x") = "FULL"
    /\ Get(Get(Classification, "u"), "t") = "NONE"

---------------------------------------------------------------------------
(* hs_comp_locindices on a dimension that is not stepping: C28 *)

\* Some dependence on u is caused by t: its source is at a later time offset
\* than its sink
TimeCarried ==
    \E p \in HaloDependences : p[1].items[1].k - p[2].items[1].k > 0

\* The time offset due for the halo
DueLast ==
    LET shift == IF TimeCarried THEN 1 ELSE 0
    IN  IF hdir = "Forward" THEN hdspace["t"][2] - shift ELSE hdspace["t"][1] + shift

\* u has an entry, and the loc_indices of its entry map t, and t only, to t + o
InsertedAt(o) ==
    /\ EntriesOfU # {}
    /\ \A n \in EntriesOfU :
          hout.mapper[n].val.loc_indices =
              <<[key |-> "t", val |-> [sub |-> "none", index |-> Sym("t", o)]]>>

\* The three equations of the examples
ExampleForward ==
    <<[lhs |-> Indexed("u", <<Sym("t", 1), Sym("x", 0)>>),
       rhs |-> <<Indexed("u", <<Sym("t", 0), Sym("x", 0)>>)>>, inc |-> FALSE]>>

ExampleBackward ==
    <<[lhs |-> Indexed("u", <<Sym("t", -1), Sym("x", 0)>>),
       rhs |-> <<Indexed("u", <<Sym("t", 0), Sym("x", 0)>>)>>, inc |-> FALSE]>>

ExampleInPlace ==
    <<[lhs |-> Indexed("u", <<Sym("t", 1), Sym("x", 0)>>),
       rhs |-> <<Indexed("u", <<Sym("t", 1), Sym("x", 0)>>)>>, inc |-> FALSE]>>

---------------------------------------------------------------------------
(* clear_cache: C23 *)

\* The step is a call of clear_cache: the entries kept are those of the
\* entries before it whose object is alive once it has run, in their order,
\* and the entry of an object a variable refers to is among them
ClearRemovesDead ==
    sop' = "clear_cache" =>
        /\ \A i \in 1..Len(symcache) :
              (\E j \in 1..Len(symcache') : symcache'[j] = symcache[i])
                  <=> sheap'[symcache[i].ref].alive
        /\ \A i \in 1..Len(symcache) :
              sheap[symcache[i].ref].held
                  => \E j \in 1..Len(symcache') : symcache'[j] = symcache[i]
        /\ \A j \in 1..Len(symcache') : \E i \in 1..Len(symcache) : symcache'[j] = symcache[i]
        /\ Len(symcache') <= Len(symcache)

\* The step creates a Function: the cache has one entry more
CreateGrows ==
    (sop' = "Function" /\ sheap' # sheap) => Len(symcache') = Len(symcache) + 1

\* Two calls of clear_cache with the same objects held after each leave the
\* cache at the same size, whatever was created and dropped in between
SameSize ==
    (Len(smeas) = 2 /\ smeas[1].held = smeas[2].held) => smeas[1].size = smeas[2].size

\* C23: clear_cache removes exactly the entries whose object is no longer
\* alive and keeps every entry whose object is; creating a Function adds one
\* entry; and creating Functions, dropping them and calling clear_cache
\* returns the cache to the size it had after the previous clear_cache.
ThmC23 == []SameSize /\ [][ClearRemovesDead]_vars /\ [][CreateGrows]_vars

\* clear_cache has brought the cache back to its previous size, which is not
\* zero, after a Function was created and dropped
WitC23 ==
    /\ sop = "clear_cache"
    /\ Len(smeas) = 2
    /\ smeas[2].created > smeas[1].created
    /\ smeas[1].held = smeas[2].held
    /\ smeas[1].size = smeas[2].size
    /\ smeas[2].size > 0

====
